---- MODULE Spec2Model ----
(***************************************************************************)
(* A model of use-unit-graph: the Node/Edge linking discipline (edge.ts,   *)
(* node.ts), the Graph's uniform-cost search (graph.ts: search, closest,   *)
(* trace), HybridSearch (graph-hybrid-search.ts), Path (path.ts) and the   *)
(* Graph's identity assignment and JSON round trip (graph.ts).             *)
(*                                                                         *)
(* Node and Edge objects are heap objects named by small integers; a node  *)
(* reference that is null is Null.  Array indices are 0-based in the code  *)
(* and 1-based in the sequences here; IndexOf keeps the code's 0-based     *)
(* answer (-1 for "absent").                                               *)
(***************************************************************************)
EXTENDS Integers, Sequences, FiniteSets, TLC

\* ------------------------------------------------------------------ bounds
NumNodes == 3
NumEdges == 2

Nodes == 1..NumNodes
Edges == 1..NumEdges
Null == 0

VARIABLES
    inputNode,    \* Edge.inputNode: Edges -> Nodes \cup {Null}
    outputNode,   \* Edge.outputNode
    duplex,       \* Edge.duplex
    distance,     \* Edge.distance
    edges,        \* Node.edges: Nodes -> Seq(Edges)
    inputEdges,   \* Node.inputEdges
    outputEdges,  \* Node.outputEdges
    nodeId,       \* Unit uniqid of each Node object (a hex string, "" = <<>>)
    edgeId,       \* Unit uniqid of each Edge object
    nodeData,     \* Unit entity and properties of each Node object
    edgeData,     \* Unit entity and properties of each Edge object
    numNodes,     \* Node objects constructed so far: the objects 1..numNodes
    numEdges,     \* Edge objects constructed so far
    uniqval,      \* Graph._uniqval_ of each Graph
    gNodes,       \* Graph.nodes of each Graph: a list of Node objects
    gEdges,       \* Graph.edges of each Graph: a list of Edge objects
    lookup,       \* Graph.lookup of each Graph: uniqid -> unit
    json,         \* the value of the last toJSON() call, or NoJson
    found,        \* the value of the last closest() or trace() call
    last,         \* the call made last: its name, arguments and outcome
    pagerank,     \* the PageRank object of each Graph: its options and scores
    result,       \* the value of the last call of a PageRank method
    search        \* the locals of the search that is running, or NoSearch

heapVars == <<inputNode, outputNode, duplex, distance, edges, inputEdges, outputEdges>>
unitVars == <<nodeId, edgeId, nodeData, edgeData, numNodes, numEdges>>
graphVars == <<uniqval, gNodes, gEdges, lookup, json>>
rankVars == <<pagerank, result>>
vars == <<heapVars, unitVars, graphVars, found, last, rankVars, search>>

\* ------------------------------------------------------------ array helpers
\* Array.prototype.indexOf: the 0-based position of the first x, or -1.
IndexOf(s, x) ==
    IF \E i \in 1..Len(s) : s[i] = x
    THEN (CHOOSE i \in 1..Len(s) : s[i] = x /\ \A j \in 1..(i - 1) : s[j] # x) - 1
    ELSE -1

\* arr.splice(pos, 1) for a 0-based pos inside the array.
SpliceOut(s, pos) ==
    [i \in 1..(Len(s) - 1) |-> IF i <= pos THEN s[i] ELSE s[i + 1]]

\* (pos = arr.indexOf(x)) > -1 && arr.splice(pos, 1)
RemoveFirst(s, x) ==
    LET pos == IndexOf(s, x) IN IF pos > -1 THEN SpliceOut(s, pos) ELSE s

\* The number of occurrences of x in s.
Count(s, x) == Cardinality({i \in 1..Len(s) : s[i] = x})

Abs(v) == IF v < 0 THEN -v ELSE v

\* ------------------------------------------------------------------- heap
\* The heap as one value, so that a method is a function from heap to heap.
Heap ==
    [inputNode |-> inputNode, outputNode |-> outputNode, duplex |-> duplex,
     distance |-> distance, edges |-> edges, inputEdges |-> inputEdges,
     outputEdges |-> outputEdges]

SetHeap(h) ==
    /\ inputNode' = h.inputNode
    /\ outputNode' = h.outputNode
    /\ duplex' = h.duplex
    /\ distance' = h.distance
    /\ edges' = h.edges
    /\ inputEdges' = h.inputEdges
    /\ outputEdges' = h.outputEdges

\* new Node(...) and new Edge(...) for every object: empty lists, null
\* endpoints, duplex false, distance 1.
NewHeap ==
    [inputNode |-> [e \in Edges |-> Null], outputNode |-> [e \in Edges |-> Null],
     duplex |-> [e \in Edges |-> FALSE], distance |-> [e \in Edges |-> 1],
     edges |-> [n \in Nodes |-> <<>>], inputEdges |-> [n \in Nodes |-> <<>>],
     outputEdges |-> [n \in Nodes |-> <<>>]]

\* ---------------------------------------------------------------- edge.ts
\* Edge._linkTo(node, direction)
LinkTo(h, e, node, direction) ==
    LET h1 == IF direction <= 0
              THEN [h EXCEPT !.inputEdges[node] = Append(@, e)] ELSE h
        h2 == IF direction >= 0
              THEN [h1 EXCEPT !.outputEdges[node] = Append(@, e)] ELSE h1
    IN [h2 EXCEPT !.edges[node] = Append(@, e)]

\* A variant of Edge.unlink that forgets the endpoints' input and output
\* lists.
EdgeUnlinkEdgesOnly(h, e) ==
    LET inode == h.inputNode[e]
        onode == h.outputNode[e]
    IN IF ~(inode # Null /\ onode # Null) THEN h
       ELSE
        LET h1 == [h EXCEPT !.edges[inode] = RemoveFirst(@, e)]
            h2 == [h1 EXCEPT !.edges[onode] = RemoveFirst(@, e)]
        IN [h2 EXCEPT !.inputNode[e] = Null, !.outputNode[e] = Null,
                      !.duplex[e] = FALSE]

\* Edge.unlink(): the heap afterwards (the call returns true on every path).
EdgeUnlink(h, e) ==
    LET inode == h.inputNode[e]
        onode == h.outputNode[e]
    IN IF ~(inode # Null /\ onode # Null) THEN h
       ELSE
        LET h1 == [h EXCEPT !.edges[inode] = RemoveFirst(@, e)]
            h2 == [h1 EXCEPT !.edges[onode] = RemoveFirst(@, e)]
            h3 == [h2 EXCEPT !.outputEdges[inode] = RemoveFirst(@, e)]
            h4 == [h3 EXCEPT !.inputEdges[onode] = RemoveFirst(@, e)]
            h5 == IF h.duplex[e]
                  THEN [h4 EXCEPT !.inputEdges[inode] = RemoveFirst(@, e)] ELSE h4
            h6 == IF h.duplex[e]
                  THEN [h5 EXCEPT !.outputEdges[onode] = RemoveFirst(@, e)] ELSE h5
        IN [h6 EXCEPT !.inputNode[e] = Null, !.outputNode[e] = Null,
                      !.duplex[e] = FALSE]

\* A variant of Edge.link that does not unlink first.
EdgeLinkNoUnlink(h, e, inode, onode, dup) ==
    LET s == [h EXCEPT !.inputNode[e] = inode, !.outputNode[e] = onode,
                       !.duplex[e] = dup]
    IN IF dup
       THEN LinkTo(LinkTo(s, e, inode, 0), e, onode, 0)
       ELSE LinkTo(LinkTo(s, e, inode, 1), e, onode, -1)

\* A variant of Edge.link that links a duplex edge as a directional one.
EdgeLinkNeverDuplex(h, e, inode, onode, dup) ==
    LET u == EdgeUnlink(h, e)
        s == [u EXCEPT !.inputNode[e] = inode, !.outputNode[e] = onode,
                       !.duplex[e] = dup]
    IN LinkTo(LinkTo(s, e, inode, 1), e, onode, -1)

\* Edge.link(inputNode, outputNode, duplex)
EdgeLink(h, e, inode, onode, dup) ==
    LET u == EdgeUnlink(h, e)
        s == [u EXCEPT !.inputNode[e] = inode, !.outputNode[e] = onode,
                       !.duplex[e] = dup]
    IN IF dup
       THEN LinkTo(LinkTo(s, e, inode, 0), e, onode, 0)
       ELSE LinkTo(LinkTo(s, e, inode, 1), e, onode, -1)

\* Edge.link(inputNode, outputNode, duplex) where a node may be undefined
\* (Null): _linkTo throws a TypeError when it reads a list of undefined, after
\* the fields are set and after the lists of a first, defined node are
\* extended.
EdgeLinkOrThrow(h, e, inode, onode, dup) ==
    LET u == EdgeUnlink(h, e)
        s == [u EXCEPT !.inputNode[e] = inode, !.outputNode[e] = onode,
                       !.duplex[e] = dup]
    IN IF inode = Null THEN [heap |-> s, threw |-> TRUE]
       ELSE IF onode = Null
       THEN [heap |-> LinkTo(s, e, inode, IF dup THEN 0 ELSE 1), threw |-> TRUE]
       ELSE [heap |-> EdgeLink(h, e, inode, onode, dup), threw |-> FALSE]

\* Edge.setDistance(v) for a numeric v: Math.abs(parseFloat(v) || 0)
EdgeSetDistance(h, e, v) == [h EXCEPT !.distance[e] = Abs(v)]

\* Edge.oppositeNode(node); Null stands for undefined.
OppositeNode(h, e, node) ==
    IF h.inputNode[e] = node THEN h.outputNode[e]
    ELSE IF h.outputNode[e] = node THEN h.inputNode[e]
    ELSE Null

\* ---------------------------------------------------------------- node.ts
\* The loop of Node.unlink from index i (0-based) with the length len read
\* once before the loop.  edges[i] is undefined once the list has shrunk
\* below i + 1 elements, and calling unlink on it throws a TypeError.
RECURSIVE NodeUnlinkLoop(_, _, _, _)
NodeUnlinkLoop(h, n, i, len) ==
    IF i >= len THEN [heap |-> h, threw |-> FALSE]
    ELSE IF i >= Len(h.edges[n]) THEN [heap |-> h, threw |-> TRUE]
    ELSE NodeUnlinkLoop(EdgeUnlink(h, h.edges[n][i + 1]), n, i + 1, len)

\* Node.unlink()
NodeUnlink(h, n) == NodeUnlinkLoop(h, n, 0, Len(h.edges[n]))



\* A reference to a Node or an Edge object, as paths and lookups hold it.
NodeRef(n) == [kind |-> "node", obj |-> n]
EdgeRef(e) == [kind |-> "edge", obj |-> e]

\* ---------------------------------------------------------------- path.ts
\* A Path is its _raw array: node, edge, node, ... as references.
RECURSIVE PathDistanceFrom(_, _, _)
PathDistanceFrom(h, raw, i) ==
    IF i > Len(raw) THEN 0
    ELSE (IF i % 2 = 0 THEN h.distance[raw[i].obj] ELSE 0)
         + PathDistanceFrom(h, raw, i + 1)

\* Path.distance(): the sum over the elements at the odd 0-based indices.
PathDistance(h, raw) == PathDistanceFrom(h, raw, 1)

\* Path.length(): _raw.length >>> 1
PathLength(raw) == Len(raw) \div 2

\* Path.end(); only for a path with elements.
PathEnd(raw) == raw[Len(raw)]

\* Path.start(); only for a path with elements.
PathStart(raw) == raw[1]

\* ------------------------------------------------- graph.ts: Graph.search
Max(x, y) == IF x >= y THEN x ELSE y
Min(x, y) == IF x <= y THEN x ELSE y

\* arr.splice(start, 0, val): a negative start counts from the end, and the
\* start is clamped to the array.
SpliceIn(arr, start, val) ==
    LET len == Len(arr)
        s == IF start < 0 THEN Max(len + start, 0) ELSE Min(start, len)
    IN SubSeq(arr, 1, s) \o <<val>> \o SubSeq(arr, s + 1, len)

\* The while loop of orderedSetInsert; i is a 0-based index, and arr[i]
\* outside the array is undefined, which is neither equal to nor less than
\* a number.
RECURSIVE OrderedSetLoop(_, _, _, _)
OrderedSetLoop(arr, val, n, i) ==
    IF n = 0 THEN [hit |-> FALSE, i |-> i]
    ELSE LET half == n \div 2
             inside == i >= 0 /\ i < Len(arr)
         IN IF inside /\ arr[i + 1] = val THEN [hit |-> TRUE, i |-> i]
            ELSE IF inside /\ arr[i + 1] < val
                 THEN OrderedSetLoop(arr, val, half, i + half)
                 ELSE OrderedSetLoop(arr, val, half, i - half)

\* orderedSetInsert(arr, val): the array afterwards.
OrderedSetInsert(arr, val) ==
    LET r == OrderedSetLoop(arr, val, Len(arr), Len(arr) \div 2)
    IN IF r.hit THEN arr
       ELSE LET inside == r.i >= 0 /\ r.i < Len(arr)
                pos == r.i + (IF inside /\ arr[r.i + 1] < val THEN 1 ELSE 0)
            IN SpliceIn(arr, pos, val)

\* enqueue(node, depth)
Enqueue(st, node, depth) ==
    [st EXCEPT
        !.depthMap = IF depth \in DOMAIN @
                     THEN [@ EXCEPT ![depth] = Append(@, node)]
                     ELSE (depth :> <<node>>) @@ @,
        !.depthList = OrderedSetInsert(@, depth)]

\* A variant of the choice of list that follows every edge of the node.
EdgesTowardAny(h, node, direction) == h.edges[node]

\* The edges a search follows from a node: node.edges, node.outputEdges or
\* node.inputEdges by the sign of the direction.
EdgesToward(h, node, direction) ==
    IF direction = 0 THEN h.edges[node]
    ELSE IF direction > 0 THEN h.outputEdges[node]
    ELSE h.inputEdges[node]

\* A variant of getPath that returns the last segment only.
GetPathSegment(h, ids, node, traced) == traced[ids[node]]

\* Graph.getPath(node, traced): the segments back to the source, joined.
RECURSIVE GetPathLoop(_, _, _, _)
GetPathLoop(h, ids, traced, path) ==
    IF path[1].kind = "edge"
    THEN LET nextNode == OppositeNode(h, path[1].obj, path[2].obj)
         IN GetPathLoop(h, ids, traced, traced[ids[nextNode]] \o path)
    ELSE path

GetPath(h, ids, node, traced) == GetPathLoop(h, ids, traced, traced[ids[node]])

\* A variant of the for loop of readNode that takes a maxDepth of 0 as a
\* bound of zero.
RECURSIVE ReadEdgesBounded(_, _, _, _, _, _, _, _)
ReadEdgesBounded(h, ids, o, st, node, curDepth, es, i) ==
    IF i > Len(es) \/ st.threw THEN st
    ELSE
      LET edge == es[i]
          depth == curDepth + h.distance[edge]
      IN IF depth > o.maxDepth
         THEN ReadEdgesBounded(h, ids, o, st, node, curDepth, es, i + 1)
         ELSE
           LET tnode == OppositeNode(h, edge, node)
           IN IF tnode = Null THEN [st EXCEPT !.threw = TRUE]
              ELSE IF ids[tnode] \notin DOMAIN st.nodePath
              THEN ReadEdgesBounded(h, ids, o,
                     Enqueue([st EXCEPT !.nodePath =
                                (ids[tnode] :> <<EdgeRef(edge), NodeRef(tnode)>>) @@ @],
                             tnode, depth),
                     node, curDepth, es, i + 1)
              ELSE ReadEdgesBounded(h, ids, o, st, node, curDepth, es, i + 1)

\* A variant of the for loop of readNode that enqueues a node every time an
\* edge reaches it.
RECURSIVE ReadEdgesAgain(_, _, _, _, _, _, _, _)
ReadEdgesAgain(h, ids, o, st, node, curDepth, es, i) ==
    IF i > Len(es) \/ st.threw THEN st
    ELSE
      LET edge == es[i]
          depth == curDepth + h.distance[edge]
          tnode == OppositeNode(h, edge, node)
      IN IF tnode = Null THEN [st EXCEPT !.threw = TRUE]
         ELSE IF ids[tnode] \notin DOMAIN st.nodePath
         THEN ReadEdgesAgain(h, ids, o,
                Enqueue([st EXCEPT !.nodePath =
                           (ids[tnode] :> <<EdgeRef(edge), NodeRef(tnode)>>) @@ @],
                        tnode, depth),
                node, curDepth, es, i + 1)
         ELSE ReadEdgesAgain(h, ids, o, Enqueue(st, tnode, depth),
                             node, curDepth, es, i + 1)

\* The for loop of readNode over the edges es, from the 1-based index i.  A
\* list entry whose edge does not touch the node makes oppositeNode return
\* undefined, and reading its id throws a TypeError.
RECURSIVE ReadEdges(_, _, _, _, _, _, _, _)
ReadEdges(h, ids, o, st, node, curDepth, es, i) ==
    IF i > Len(es) \/ st.threw THEN st
    ELSE
      LET edge == es[i]
          depth == curDepth + h.distance[edge]
      IN IF o.maxDepth # 0 /\ depth > o.maxDepth
         THEN ReadEdges(h, ids, o, st, node, curDepth, es, i + 1)
         ELSE
           LET tnode == OppositeNode(h, edge, node)
           IN IF tnode = Null THEN [st EXCEPT !.threw = TRUE]
              ELSE IF ids[tnode] \notin DOMAIN st.nodePath
              THEN ReadEdges(h, ids, o,
                     Enqueue([st EXCEPT !.nodePath =
                                (ids[tnode] :> <<EdgeRef(edge), NodeRef(tnode)>>) @@ @],
                             tnode, depth),
                     node, curDepth, es, i + 1)
              ELSE ReadEdges(h, ids, o, st, node, curDepth, es, i + 1)

\* A variant of readNode that puts a path in the result for every node.
ReadNodeNoFilter(h, ids, o, st, node, curDepth) ==
    LET st1 == ReadEdges(h, ids, o, st, node, curDepth,
                         EdgesToward(h, node, o.direction), 1)
    IN IF st1.threw THEN st1
       ELSE [st1 EXCEPT !.found = Append(@, GetPath(h, ids, node, st1.nodePath))]

\* readNode(node, curDepth), with found.push of the path it returns.
ReadNode(h, ids, o, st, node, curDepth) ==
    LET st1 == ReadEdges(h, ids, o, st, node, curDepth,
                         EdgesToward(h, node, o.direction), 1)
    IN IF st1.threw THEN st1
       ELSE IF curDepth >= o.minDepth /\ node \in o.pass
       THEN [st1 EXCEPT !.found = Append(@, GetPath(h, ids, node, st1.nodePath))]
       ELSE st1

\* The inner while loop of search: the queue of curDepth, which readNode may
\* extend while it is drained.
RECURSIVE DrainQueue(_, _, _, _, _)
DrainQueue(h, ids, o, st, curDepth) ==
    IF st.threw \/ st.depthMap[curDepth] = <<>> THEN st
    ELSE
      LET node == Head(st.depthMap[curDepth])
          st1 == [st EXCEPT !.depthMap[curDepth] = Tail(@)]
          st2 == ReadNode(h, ids, o, st1, node, curDepth)
      IN IF st2.threw THEN st2
         ELSE IF o.count # 0 /\ Len(st2.found) >= o.count
         THEN [st2 EXCEPT !.done = TRUE]
         ELSE DrainQueue(h, ids, o, st2, curDepth)

\* The outer while loop of search.
RECURSIVE SearchLoop(_, _, _, _)
SearchLoop(h, ids, o, st) ==
    IF st.done \/ st.threw \/ st.depthList = <<>> THEN st
    ELSE LET curDepth == Head(st.depthList)
             st1 == [st EXCEPT !.depthList = Tail(@)]
         IN SearchLoop(h, ids, o, DrainQueue(h, ids, o, st1, curDepth))

\* A variant of the options that drops the two depths.
SearchOptionsNoDepth(pass, count, direction, minDepth, maxDepth) ==
    [pass |-> pass, count |-> IF count >= 0 THEN count ELSE 0,
     direction |-> direction, minDepth |-> 0, maxDepth |-> 0]

\* A variant of the options that drops the count.
SearchOptionsNoCount(pass, count, direction, minDepth, maxDepth) ==
    [pass |-> pass, count |-> 0, direction |-> direction,
     minDepth |-> IF minDepth >= 0 THEN minDepth ELSE 0,
     maxDepth |-> IF maxDepth >= 0 THEN maxDepth ELSE 0]

\* The options of a search as the code normalises them; pass is the set of
\* nodes the passCondition accepts (every node when none is given).
SearchOptions(pass, count, direction, minDepth, maxDepth) ==
    [pass |-> pass, count |-> Max(0, count), direction |-> direction,
     minDepth |-> Max(0, minDepth), maxDepth |-> Max(0, maxDepth)]

\* Graph.search(node, passCondition, count, direction, minDepth, maxDepth):
\* found, the list of paths, and threw.
GraphSearch(h, ids, node, pass, count, direction, minDepth, maxDepth) ==
    LET o == SearchOptions(pass, count, direction, minDepth, maxDepth)
        st0 == [nodePath |-> (ids[node] :> <<NodeRef(node)>>),
                depthMap |-> (0 :> <<node>>),
                depthList |-> <<0>>,
                found |-> <<>>, threw |-> FALSE, done |-> FALSE]
        st == SearchLoop(h, ids, o, st0)
    IN [found |-> st.found, threw |-> st.threw]

\* ------------------------------------- graph-hybrid-search.ts: HybridSearch
\* calculatePriority(node, distance) = 0.7 * 1/(distance + 1) + 0.3 * c/100
\* with c the node's edge count by direction.  The priority is kept as the
\* pair (distance, c), and two priorities are compared exactly, both sides
\* multiplied by 1000 (d1 + 1)(d2 + 1).
Priority(h, o, node, dist) ==
    [d |-> dist, c |-> Len(EdgesToward(h, node, o.direction))]

PriorityGreater(p, q) ==
    700 * (q.d + 1) + 3 * p.c * (p.d + 1) * (q.d + 1)
        > 700 * (p.d + 1) + 3 * q.c * (p.d + 1) * (q.d + 1)

\* A variant of enqueue that puts every entry at the end.
HybridEnqueueLast(h, o, pq, node, dist) ==
    Append(pq, [node |-> node, distance |-> dist,
                priority |-> Priority(h, o, node, dist)])

\* enqueue(node, distance) of HybridSearch: before the first entry of lower
\* priority, or at the end.
HybridEnqueue(h, o, pq, node, dist) ==
    LET entry == [node |-> node, distance |-> dist,
                  priority |-> Priority(h, o, node, dist)]
        lower == {i \in 1..Len(pq) : PriorityGreater(entry.priority, pq[i].priority)}
    IN IF lower = {} THEN Append(pq, entry)
       ELSE LET i == CHOOSE j \in lower : \A m \in lower : j <= m
            IN SubSeq(pq, 1, i - 1) \o <<entry>> \o SubSeq(pq, i, Len(pq))

\* The for loop of HybridSearch.search over the edges es from index i.
RECURSIVE HybridEdges(_, _, _, _, _, _, _, _)
HybridEdges(h, ids, o, st, node, curDistance, es, i) ==
    IF i > Len(es) \/ st.threw THEN st
    ELSE
      LET edge == es[i]
          nextDistance == curDistance + h.distance[edge]
          nextNode == OppositeNode(h, edge, node)
      IN IF nextNode = Null THEN [st EXCEPT !.threw = TRUE]
         ELSE IF ids[nextNode] \notin st.visited
         THEN HybridEdges(h, ids, o,
                [st EXCEPT
                   !.visited = @ \cup {ids[nextNode]},
                   !.nodePath = (ids[nextNode] :> <<EdgeRef(edge), NodeRef(nextNode)>>) @@ @,
                   !.pq = HybridEnqueue(h, o, @, nextNode, nextDistance)],
                node, curDistance, es, i + 1)
         ELSE HybridEdges(h, ids, o, st, node, curDistance, es, i + 1)

\* The while loop of HybridSearch.search.
RECURSIVE HybridLoop(_, _, _, _)
HybridLoop(h, ids, o, st) ==
    IF st.threw \/ st.pq = <<>> THEN st
    ELSE
      LET current == Head(st.pq)
          node == current.node
          curDistance == current.distance
          st1 == [st EXCEPT !.pq = Tail(@)]
      IN IF o.maxDepth # 0 /\ curDistance > o.maxDepth
         THEN HybridLoop(h, ids, o, st1)
         ELSE
           LET push == curDistance >= o.minDepth /\ node \in o.pass
               st2 == IF push
                      THEN [st1 EXCEPT !.found =
                              Append(@, GetPath(h, ids, node, st1.nodePath))]
                      ELSE st1
           IN IF push /\ o.count # 0 /\ Len(st2.found) >= o.count THEN st2
              ELSE HybridLoop(h, ids, o,
                     HybridEdges(h, ids, o, st2, node, curDistance,
                                 EdgesToward(h, node, o.direction), 1))

\* HybridSearch.search(startNode, passCondition, count, direction, minDepth,
\* maxDepth): found and threw.
HybridSearch(h, ids, node, pass, count, direction, minDepth, maxDepth) ==
    LET o == SearchOptions(pass, count, direction, minDepth, maxDepth)
        st0 == [nodePath |-> (ids[node] :> <<NodeRef(node)>>),
                pq |-> HybridEnqueue(h, o, <<>>, node, 0),
                found |-> <<>>, visited |-> {ids[node]}, threw |-> FALSE]
        st == HybridLoop(h, ids, o, st0)
    IN [found |-> st.found, threw |-> st.threw]

\* Graph.closest(node, opts) for the algorithms "dijkstra" (the default) and
\* "hybrid".
GraphClosest(h, ids, node, alg, pass, count, direction, minDepth, maxDepth) ==
    IF alg = "hybrid"
    THEN HybridSearch(h, ids, node, pass, count, direction, minDepth, maxDepth)
    ELSE GraphSearch(h, ids, node, pass, count, direction, minDepth, maxDepth)

\* Graph.trace(fromNode, toNode, direction): the first path of a search for
\* toNode with count 1, or new Path([]).
GraphTrace(h, ids, fromNode, toNode, direction) ==
    LET r == GraphSearch(h, ids, fromNode, {toNode}, 1, direction, 0, 0)
    IN [path |-> IF ~r.threw /\ Len(r.found) > 0 THEN r.found[1] ELSE <<>>,
        threw |-> r.threw]

\* ---------------------------------------------------------------- graph.ts
NumGraphs == 2
Graphs == 1..NumGraphs

\* The value of Graph._uniqval_ after construction.  The code starts at
\* Number.MAX_SAFE_INTEGER; the start is scaled down here to fit the
\* model's integers, and stays above the number of units any run creates.
UniqvalStart == 255

\* Number.prototype.toString(16): the hex digits, most significant first.
RECURSIVE ToString16(_)
ToString16(v) ==
    IF v < 16 THEN <<v>> ELSE Append(ToString16(v \div 16), v % 16)

\* Object.create(null)
EmptyLookup == [x \in {} |-> Null]

NoJson == [nodes |-> <<>>, edges |-> <<>>, none |-> TRUE]

\* Unit.load(properties): the keys of properties copied into a new object.
\* Properties are functions from keys to values.
UnitLoad(properties) == [k \in DOMAIN properties |-> properties[k]]

\* The Unit constructor's entity and properties: entity + '' and load().
UnitData(entity, properties) ==
    [entity |-> entity, properties |-> UnitLoad(properties)]

\* Object.create(null) as properties, and the entity of the units that the
\* searches and the identity runs create.
NoProperties == [k \in {} |-> Null]
NoData == UnitData("", NoProperties)
PlainData == UnitData("unit", NoProperties)

\* The heap together with the units' ids and the Graphs, as one value.
World ==
    [inputNode |-> inputNode, outputNode |-> outputNode, duplex |-> duplex,
     distance |-> distance, edges |-> edges, inputEdges |-> inputEdges,
     outputEdges |-> outputEdges, nodeId |-> nodeId, edgeId |-> edgeId,
     nodeData |-> nodeData, edgeData |-> edgeData,
     numNodes |-> numNodes, numEdges |-> numEdges, uniqval |-> uniqval,
     gNodes |-> gNodes, gEdges |-> gEdges, lookup |-> lookup]

SetWorld(w) ==
    /\ SetHeap(w)
    /\ nodeId' = w.nodeId
    /\ edgeId' = w.edgeId
    /\ nodeData' = w.nodeData
    /\ edgeData' = w.edgeData
    /\ numNodes' = w.numNodes
    /\ numEdges' = w.numEdges
    /\ uniqval' = w.uniqval
    /\ gNodes' = w.gNodes
    /\ gEdges' = w.gEdges
    /\ lookup' = w.lookup

IsWorld(w) ==
    /\ inputNode = w.inputNode
    /\ outputNode = w.outputNode
    /\ duplex = w.duplex
    /\ distance = w.distance
    /\ edges = w.edges
    /\ inputEdges = w.inputEdges
    /\ outputEdges = w.outputEdges
    /\ nodeId = w.nodeId
    /\ edgeId = w.edgeId
    /\ nodeData = w.nodeData
    /\ edgeData = w.edgeData
    /\ numNodes = w.numNodes
    /\ numEdges = w.numEdges
    /\ uniqval = w.uniqval
    /\ gNodes = w.gNodes
    /\ gEdges = w.gEdges
    /\ lookup = w.lookup

\* No object constructed yet, and new Graph() for each Graph; ns and es are
\* the objects that can be constructed.
NewWorld(ns, es) ==
    [inputNode |-> [e \in es |-> Null], outputNode |-> [e \in es |-> Null],
     duplex |-> [e \in es |-> FALSE], distance |-> [e \in es |-> 1],
     edges |-> [n \in ns |-> <<>>], inputEdges |-> [n \in ns |-> <<>>],
     outputEdges |-> [n \in ns |-> <<>>],
     nodeId |-> [n \in ns |-> <<>>], edgeId |-> [e \in es |-> <<>>],
     nodeData |-> [n \in ns |-> NoData], edgeData |-> [e \in es |-> NoData],
     numNodes |-> 0, numEdges |-> 0,
     uniqval |-> [g \in Graphs |-> UniqvalStart],
     gNodes |-> [g \in Graphs |-> <<>>],
     gEdges |-> [g \in Graphs |-> <<>>],
     lookup |-> [g \in Graphs |-> EmptyLookup]]

\* Graph._createNode(entity, properties, uniqid): new Node, then addNode.
AddNewNode(w, g, data, uniqid) ==
    LET n == w.numNodes + 1
    IN [w EXCEPT !.numNodes = n,
                 !.nodeId[n] = uniqid,
                 !.nodeData[n] = UnitData(data.entity, data.properties),
                 !.gNodes[g] = Append(@, n),
                 !.lookup[g] = (uniqid :> NodeRef(n)) @@ @]

\* Graph._createEdge(entity, properties, uniqid): new Edge, then addEdge.
AddNewEdge(w, g, data, uniqid) ==
    LET e == w.numEdges + 1
    IN [w EXCEPT !.numEdges = e,
                 !.edgeId[e] = uniqid,
                 !.edgeData[e] = UnitData(data.entity, data.properties),
                 !.gEdges[g] = Append(@, e),
                 !.lookup[g] = (uniqid :> EdgeRef(e)) @@ @]

\* Graph.createNode(entity, properties): the id is (_uniqval_--).toString(16).
GraphCreateNode(w, g, data) ==
    AddNewNode([w EXCEPT !.uniqval[g] = @ - 1], g, data, ToString16(w.uniqval[g]))

\* Graph.createEdge(entity, properties)
GraphCreateEdge(w, g, data) ==
    AddNewEdge([w EXCEPT !.uniqval[g] = @ - 1], g, data, ToString16(w.uniqval[g]))

\* Graph.getUnit(uniqid); NoUnit stands for undefined.
NoUnit == [kind |-> "undefined", obj |-> Null]
GraphGetUnit(w, g, uniqid) ==
    IF uniqid \in DOMAIN w.lookup[g] THEN w.lookup[g][uniqid] ELSE NoUnit

\* createNode k times, then createEdge m times, on Graph g.
RECURSIVE CreateNodes(_, _, _)
CreateNodes(w, g, k) ==
    IF k = 0 THEN w ELSE GraphCreateNode(CreateNodes(w, g, k - 1), g, PlainData)

RECURSIVE CreateEdges(_, _, _)
CreateEdges(w, g, m) ==
    IF m = 0 THEN w ELSE GraphCreateEdge(CreateEdges(w, g, m - 1), g, PlainData)

\* Node.toJSON() and Edge.toJSON(): entity, properties and id, and for an
\* edge the ids of its nodes ("" for none), duplex as 1 or 0, and the
\* distance.
NodeToJSON(w, n) ==
    [entity |-> w.nodeData[n].entity, properties |-> w.nodeData[n].properties,
     id |-> w.nodeId[n]]
EdgeToJSON(w, e) ==
    [entity |-> w.edgeData[e].entity, properties |-> w.edgeData[e].properties,
     id |-> w.edgeId[e],
     input |-> IF w.inputNode[e] # Null THEN w.nodeId[w.inputNode[e]] ELSE <<>>,
     output |-> IF w.outputNode[e] # Null THEN w.nodeId[w.outputNode[e]] ELSE <<>>,
     duplex |-> IF w.duplex[e] THEN 1 ELSE 0,
     distance |-> w.distance[e]]

\* Graph.toJSON(): the nodes and the edges in the order of the Graph's lists.
GraphToJSON(w, g) ==
    [nodes |-> [i \in 1..Len(w.gNodes[g]) |-> NodeToJSON(w, w.gNodes[g][i])],
     edges |-> [i \in 1..Len(w.gEdges[g]) |-> EdgeToJSON(w, w.gEdges[g][i])],
     none |-> FALSE]

\* Graph.init()
GraphInit(w, g) ==
    [w EXCEPT !.lookup[g] = EmptyLookup, !.gNodes[g] = <<>>, !.gEdges[g] = <<>>]

\* The first loop of fromJSON: _createNode for every node record from i on.
RECURSIVE FromJSONNodes(_, _, _, _)
FromJSONNodes(w, g, recs, i) ==
    IF i > Len(recs) THEN w
    ELSE FromJSONNodes(AddNewNode(w, g, recs[i], recs[i].id), g, recs, i + 1)

\* A unit found by getUnit, read as a Node; Null when it is undefined.
AsNode(u) == IF u.kind = "node" THEN u.obj ELSE Null

\* The second loop of fromJSON: _createEdge, two getUnit calls, link and
\* setDistance for every edge record from i on.  A TypeError in link ends
\* the call with the units created so far in place.
RECURSIVE FromJSONEdges(_, _, _, _)
FromJSONEdges(w, g, recs, i) ==
    IF i > Len(recs) THEN [world |-> w, threw |-> FALSE]
    ELSE
      LET w1 == AddNewEdge(w, g, recs[i], recs[i].id)
          e == w1.numEdges
          inode == AsNode(GraphGetUnit(w1, g, recs[i].input))
          onode == AsNode(GraphGetUnit(w1, g, recs[i].output))
          r == EdgeLinkOrThrow(w1, e, inode, onode, recs[i].duplex # 0)
      IN IF r.threw THEN [world |-> r.heap, threw |-> TRUE]
         ELSE FromJSONEdges(EdgeSetDistance(r.heap, e, recs[i].distance), g, recs, i + 1)

\* Graph.fromJSON(json): init(), the nodes, then the edges.
GraphFromJSON(w, g, j) ==
    FromJSONEdges(FromJSONNodes(GraphInit(w, g), g, j.nodes, 1), g, j.edges, 1)

\* -------------------------------------------------------------- pagerank.ts
\* Scores are kept as exact fractions [n, d] in lowest terms with d > 0, in
\* place of the code's floating-point numbers.
RECURSIVE GCD(_, _)
GCD(a, b) == IF b = 0 THEN a ELSE GCD(b, a % b)

Rat(n, d) ==
    LET g == GCD(Abs(n), Abs(d))
        sgn == IF d < 0 THEN -1 ELSE 1
    IN [n |-> sgn * (n \div g), d |-> sgn * (d \div g)]

RZero == [n |-> 0, d |-> 1]
RAdd(x, y) ==
    LET g == GCD(x.d, y.d)
    IN Rat(x.n * (y.d \div g) + y.n * (x.d \div g), (x.d \div g) * y.d)
RSub(x, y) == RAdd(x, [n |-> -y.n, d |-> y.d])
RMul(x, y) ==
    LET a == Rat(x.n, y.d)
        b == Rat(y.n, x.d)
    IN [n |-> a.n * b.n, d |-> a.d * b.d]
RDiv(x, y) == RMul(x, Rat(y.d, y.n))
RAbs(x) == [n |-> Abs(x.n), d |-> x.d]
RLess(x, y) == RSub(x, y).n < 0
RMax(x, y) == IF RLess(x, y) THEN y ELSE x

\* The sum of f[i] over the indices i..Len(f) of a sequence of fractions.
RECURSIVE RSum(_, _)
RSum(f, i) == IF i > Len(f) THEN RZero ELSE RAdd(f[i], RSum(f, i + 1))

\* The options a PageRank object is constructed with when none are given:
\* a dampingFactor of 0.85 and a tolerance of 1e-6.
\* The code's maxIterations is 100.
DefaultIterations == 2
DefaultDamping == [n |-> 17, d |-> 20]
DefaultTolerance == [n |-> 1, d |-> 1000000]

\* new Map()
NoScores == [x \in {} |-> RZero]

\* new PageRank(graph, {maxIterations})
NewPageRank(maxIterations) ==
    [dampingFactor |-> DefaultDamping, maxIterations |-> maxIterations,
     tolerance |-> DefaultTolerance, scores |-> NoScores]

\* scores.get(id) || 0
ScoreOf(scores, id) == IF id \in DOMAIN scores THEN scores[id] ELSE RZero

\* getOutgoingCount(node)
OutgoingCount(w, n) == Len(w.outputEdges[n])

\* getIncomingNodes(node): edge.inputNode of every edge in node.inputEdges.
IncomingNodes(w, n) ==
    LET es == SelectSeq(w.inputEdges[n], LAMBDA e : w.inputNode[e] # Null)
    IN [i \in 1..Len(es) |-> w.inputNode[es[i]]]

\* sinkPR of one iteration: the scores of the nodes without outgoing edges.
SinkPR(w, nodes, scores) ==
    LET sinks == SelectSeq(nodes, LAMBDA m : OutgoingCount(w, m) = 0)
    IN RSum([i \in 1..Len(sinks) |-> ScoreOf(scores, w.nodeId[sinks[i]])], 1)

\* sum of one node in one iteration: over getIncomingNodes(node), of the
\* score of inNode over its outgoing count where that is not 0.
LinkTerm(w, scores, node) ==
    LET ins == SelectSeq(IncomingNodes(w, node), LAMBDA m : OutgoingCount(w, m) > 0)
    IN RSum([i \in 1..Len(ins) |->
               RDiv(ScoreOf(scores, w.nodeId[ins[i]]),
                    [n |-> OutgoingCount(w, ins[i]), d |-> 1])], 1)

\* The new score of a node in one iteration of compute.
NewScore(w, pr, nodes, scores, sinkPR, node) ==
    LET N == [n |-> Len(nodes), d |-> 1]
        sum == LinkTerm(w, scores, node)
        randomJumpProbability == RDiv(RSub([n |-> 1, d |-> 1], pr.dampingFactor), N)
        sinkContribution == RDiv(RMul(pr.dampingFactor, sinkPR), N)
    IN RAdd(RAdd(randomJumpProbability, sinkContribution), RMul(pr.dampingFactor, sum))

\* Map.set(key, value)
MapSet(map, key, value) == (key :> value) @@ map

\* The first forEach of compute: scores.set(id, 1 / N) for the nodes from
\* index i.
RECURSIVE InitialScores(_, _, _, _)
InitialScores(w, nodes, scores, i) ==
    IF i > Len(nodes) THEN scores
    ELSE InitialScores(w, nodes,
           MapSet(scores, w.nodeId[nodes[i]], Rat(1, Len(nodes))), i + 1)

\* The end of the second forEach's callback: newScores.set and the
\* difference tracked for convergence.
Scored(w, scores, it, node, newScore) ==
    [newScores |-> MapSet(it.newScores, w.nodeId[node], newScore),
     maxDifference |-> RMax(it.maxDifference,
                            RAbs(RSub(newScore, ScoreOf(scores, w.nodeId[node]))))]

\* The second forEach of an iteration for the nodes from index i.
RECURSIVE Iterate(_, _, _, _, _, _, _)
Iterate(w, pr, nodes, scores, sinkPR, it, i) ==
    IF i > Len(nodes) THEN it
    ELSE Iterate(w, pr, nodes, scores, sinkPR,
           Scored(w, scores, it, nodes[i],
                  NewScore(w, pr, nodes, scores, sinkPR, nodes[i])),
           i + 1)

\* The while loop of compute from the given iteration.
RECURSIVE ComputeLoop(_, _, _, _, _)

\* The end of an iteration: this.scores = newScores and the convergence
\* check.
Converge(w, pr, nodes, iteration, it) ==
    IF RLess(it.maxDifference, pr.tolerance) THEN it.newScores
    ELSE ComputeLoop(w, pr, nodes, it.newScores, iteration + 1)

ComputeLoop(w, pr, nodes, scores, iteration) ==
    IF iteration >= pr.maxIterations THEN scores
    ELSE Converge(w, pr, nodes, iteration,
           Iterate(w, pr, nodes, scores, SinkPR(w, nodes, scores),
                   [newScores |-> NoScores, maxDifference |-> RZero], 1))

\* The sum of the values of a Map.
RECURSIVE SumOver(_, _)
SumOver(scores, ids) ==
    IF ids = {} THEN RZero
    ELSE LET id == CHOOSE x \in ids : TRUE
         IN RAdd(scores[id], SumOver(scores, ids \ {id}))

\* A variant of normalizeScores that leaves the scores as they are.
NormalizeNothing(scores) == scores

\* normalizeScores()
NormalizeScores(scores) ==
    LET sum == SumOver(scores, DOMAIN scores)
    IN IF sum.n > 0 THEN [id \in DOMAIN scores |-> RDiv(scores[id], sum)]
       ELSE scores

\* return this.scores
Computed(pr, scores) == [pr |-> [pr EXCEPT !.scores = scores], ret |-> scores]

\* PageRank.compute(): the object afterwards and the Map returned.
PageRankCompute(w, pr, g) ==
    IF Len(w.gNodes[g]) = 0 THEN [pr |-> pr, ret |-> NoScores]
    ELSE Computed(pr, NormalizeScores(
           ComputeLoop(w, pr, w.gNodes[g],
                       InitialScores(w, w.gNodes[g], pr.scores, 1), 0)))

\* if (this.scores.size === 0) this.compute(): the object afterwards.
EnsureScores(w, pr, g) ==
    IF DOMAIN pr.scores = {} THEN PageRankCompute(w, pr, g).pr ELSE pr

\* A variant of getScore that returns 1 for a node without a score.
GetScoreOrOne(w, pr, n) ==
    IF w.nodeId[n] \in DOMAIN pr.scores THEN pr.scores[w.nodeId[n]] ELSE [n |-> 1, d |-> 1]

\* PageRank.getScore(node)
GetScore(w, pr, n) == ScoreOf(pr.scores, w.nodeId[n])

\* Array.prototype.sort by descending score: a stable sort, so nodes of
\* equal score keep their order.  InsertDesc puts x behind every element
\* whose score is not below its own.
RECURSIVE InsertDesc(_, _, _, _)
InsertDesc(w, scores, sorted, x) ==
    IF sorted = <<>> THEN <<x>>
    ELSE IF RLess(ScoreOf(scores, w.nodeId[Head(sorted)]), ScoreOf(scores, w.nodeId[x]))
    THEN <<x>> \o sorted
    ELSE <<Head(sorted)>> \o InsertDesc(w, scores, Tail(sorted), x)

RECURSIVE SortDescFrom(_, _, _, _, _)
SortDescFrom(w, scores, nodes, i, sorted) ==
    IF i > Len(nodes) THEN sorted
    ELSE SortDescFrom(w, scores, nodes, i + 1, InsertDesc(w, scores, sorted, nodes[i]))

SortDesc(w, scores, nodes) == SortDescFrom(w, scores, nodes, 1, <<>>)

\* Array.prototype.slice(0, end)
Slice(arr, end) ==
    SubSeq(arr, 1, IF end < 0 THEN Max(Len(arr) + end, 0) ELSE Min(end, Len(arr)))

\* sort and slice of getTopNodes; the sort is done in place on the Graph's
\* own nodes array.
TopSorted(w, pr, g, n, sorted) ==
    [pr |-> pr, world |-> [w EXCEPT !.gNodes[g] = sorted], ret |-> Slice(sorted, n)]

TopScored(w, pr, g, n) == TopSorted(w, pr, g, n, SortDesc(w, pr.scores, w.gNodes[g]))

\* PageRank.getTopNodes(n): compute() when there are no scores.
PageRankGetTopNodes(w, pr, g, n) == TopScored(w, EnsureScores(w, pr, g), g, n)

\* The nodes of a list of candidates without null and without a node whose
\* id came earlier in the list.
RECURSIVE Distinct(_, _, _, _)
Distinct(w, cands, i, acc) ==
    IF i > Len(cands) THEN acc
    ELSE IF cands[i] = Null
            \/ \E j \in 1..Len(acc) : w.nodeId[acc[j]] = w.nodeId[cands[i]]
    THEN Distinct(w, cands, i + 1, acc)
    ELSE Distinct(w, cands, i + 1, Append(acc, cands[i]))

OutputNodes(w, n) == [i \in 1..Len(w.outputEdges[n]) |-> w.outputNode[w.outputEdges[n][i]]]
InputNodes(w, n) == [i \in 1..Len(w.inputEdges[n]) |-> w.inputNode[w.inputEdges[n][i]]]

\* getConnectedNodes(node)
ConnectedNodes(w, n) == Distinct(w, OutputNodes(w, n) \o InputNodes(w, n), 1, <<>>)

\* getDirectionalConnectedNodes(node, direction)
DirectionalConnectedNodes(w, n, direction) ==
    IF direction = 0 THEN ConnectedNodes(w, n)
    ELSE IF direction > 0 THEN Distinct(w, OutputNodes(w, n), 1, <<>>)
    ELSE Distinct(w, InputNodes(w, n), 1, <<>>)

\* The two for loops of getNodesWithDistances: the nodes of the current
\* level from index i, the connected nodes of one from index j.
RECURSIVE VisitLevel(_, _, _, _, _, _, _)
VisitLevel(w, st, level, direction, currentDistance, i, j) ==
    IF i > Len(level) THEN st
    ELSE
      LET connected == DirectionalConnectedNodes(w, level[i], direction)
      IN IF j > Len(connected)
         THEN VisitLevel(w, st, level, direction, currentDistance, i + 1, 1)
         ELSE IF w.nodeId[connected[j]] \notin st.visited
         THEN VisitLevel(w,
                [visited |-> st.visited \cup {w.nodeId[connected[j]]},
                 result |-> Append(st.result,
                                   [node |-> connected[j], distance |-> currentDistance]),
                 nextLevel |-> Append(st.nextLevel, connected[j])],
                level, direction, currentDistance, i, j + 1)
         ELSE VisitLevel(w, st, level, direction, currentDistance, i, j + 1)

\* The while loop of getNodesWithDistances.
RECURSIVE VisitLevels(_, _, _, _, _, _)
VisitLevels(w, st, currentLevel, currentDistance, maxDepth, direction) ==
    IF ~(currentDistance < maxDepth /\ Len(currentLevel) > 0) THEN st.result
    ELSE LET st1 == VisitLevel(w, [st EXCEPT !.nextLevel = <<>>], currentLevel,
                               direction, currentDistance + 1, 1, 1)
         IN VisitLevels(w, st1, st1.nextLevel, currentDistance + 1, maxDepth, direction)

\* getNodesWithDistances(sourceNode, maxDepth, direction)
NodesWithDistances(w, sourceNode, maxDepth, direction) ==
    VisitLevels(w,
                [visited |-> {w.nodeId[sourceNode]},
                 result |-> << [node |-> sourceNode, distance |-> 0] >>,
                 nextLevel |-> <<>>],
                <<sourceNode>>, 0, maxDepth, direction)

\* An option that may be left out is the empty set or the set of its value;
\* OrElse is the code's ?? with a default.
OrElse(opt, default) == IF opt = {} THEN default ELSE CHOOSE v \in opt : TRUE

\* The options of getRelevantNodes with their defaults; compare is the set
\* of nodes it accepts, every node when it is left out.
RelevantOptions(all, compare, limit, maxDepth, minDepth, minScore, direction) ==
    [compare |-> OrElse(compare, all), direction |-> OrElse(direction, 0),
     limit |-> OrElse(limit, 10), maxDepth |-> OrElse(maxDepth, 2),
     minDepth |-> OrElse(minDepth, 1), minScore |-> OrElse(minScore, RZero)]

\* A variant of the first filter of getRelevantNodes that keeps every node
\* the traversal reached.
InRangeAlways(w, o, sourceNode, entry) == TRUE

\* The first filter of getRelevantNodes.
InRange(w, o, sourceNode, entry) ==
    /\ w.nodeId[entry.node] # w.nodeId[sourceNode]
    /\ entry.distance >= o.minDepth
    /\ entry.distance <= o.maxDepth
    /\ entry.node \in o.compare

\* The nodes that pass the first filter of getRelevantNodes.
RelevantNodes(w, o, sourceNode) ==
    LET nwd == SelectSeq(NodesWithDistances(w, sourceNode, o.maxDepth, o.direction),
                         LAMBDA en : InRange(w, o, sourceNode, en))
    IN [i \in 1..Len(nwd) |-> nwd[i].node]

\* A variant of the threshold: the sum of the scores of the relevant nodes.
EffectiveMinScoreSum(w, o, scores, relevant) ==
    [none |-> FALSE,
     v |-> RSum([i \in 1..Len(relevant) |-> ScoreOf(scores, w.nodeId[relevant[i]])], 1)]

\* effectiveMinScore; none stands for undefined, the value of an array
\* element at a negative index.
EffectiveMinScore(w, o, scores, relevant) ==
    LET sc == [i \in 1..Len(relevant) |-> ScoreOf(scores, w.nodeId[relevant[i]])]
        mean == RDiv(RSum(sc, 1), [n |-> Len(sc), d |-> 1])
        sortedScores == SortDesc(w, scores, relevant)
        idx == Min(o.limit, Len(sc)) - 1
    IN IF ~(o.minScore = RZero /\ Len(relevant) > 0) THEN [none |-> FALSE, v |-> o.minScore]
       ELSE IF Len(relevant) > o.limit
       THEN IF idx < 0 THEN [none |-> TRUE, v |-> RZero]
            ELSE [none |-> FALSE, v |-> ScoreOf(scores, w.nodeId[sortedScores[idx + 1]])]
       ELSE [none |-> FALSE, v |-> RMul(mean, Rat(1, 10))]

\* The last filter, the sort and the slice of getRelevantNodes.
RelevantAbove(w, pr, o, relevant, eff) ==
    [pr |-> pr,
     ret |-> Slice(SortDesc(w, pr.scores,
                     SelectSeq(relevant,
                       LAMBDA n : ~eff.none /\ ~RLess(ScoreOf(pr.scores, w.nodeId[n]), eff.v))),
                   o.limit)]

RelevantScored(w, pr, o, relevant) ==
    RelevantAbove(w, pr, o, relevant, EffectiveMinScore(w, o, pr.scores, relevant))

\* PageRank.getRelevantNodes(sourceNode, options) for options o with their
\* defaults filled in.
PageRankGetRelevantNodes(w, pr, g, sourceNode, o) ==
    RelevantScored(w, EnsureScores(w, pr, g), o, RelevantNodes(w, o, sourceNode))

\* nodes.map(node => new Path([node]))
OneNodePaths(nodes) == [i \in 1..Len(nodes) |-> <<NodeRef(nodes[i])>>]

\* Graph.closest(node, opts) with algorithm "pagerank": new PageRank(this),
\* getRelevantNodes with limit, maxDepth, minDepth of the options and
\* minScore 0, and a one-node Path for each node returned.
GraphClosestPageRank(w, g, node, count, maxDepth, minDepth) ==
    LET o == RelevantOptions({w.gNodes[g][i] : i \in 1..Len(w.gNodes[g])},
                             {}, count, maxDepth, minDepth, {RZero}, {})
    IN OneNodePaths(
         PageRankGetRelevantNodes(w, NewPageRank(DefaultIterations), g, node, o).ret)

\* No PageRank call made yet.
NoResult == [none |-> TRUE]

\* No search is running.
NoSearch == [none |-> TRUE]

InitRank ==
    /\ pagerank = [g \in Graphs |-> NewPageRank(DefaultIterations)]
    /\ result = NoResult
    /\ search = NoSearch

\* ----------------------------------------------------------- call records
\* The record of one call.  g: the Graph; e, n: the edge or node the method
\* was called on (or the source of a search); a, b, d: for link its
\* arguments, for Edge.unlink the edge's endpoints and duplex flag when it was
\* called, for trace the target in b; k: for Node.unlink the length of the
\* node's edges list when it was called, for a search its direction;
\* wasLinked: the edge had both endpoints when the call was made; threw: the
\* call ended in a TypeError; alg: the algorithm option of closest.
Call(op, e, n, a, b, d, k, wasLinked, threw) ==
    [op |-> op, e |-> e, n |-> n, a |-> a, b |-> b, d |-> d, k |-> k,
     wasLinked |-> wasLinked, threw |-> threw, alg |-> "", g |-> 0]

NoCall == Call("new", Null, Null, Null, Null, FALSE, 0, FALSE, FALSE)

IsLinked(h, e) == h.inputNode[e] # Null /\ h.outputNode[e] # Null

\* Graphs as constructed: new Graph() for each.
InitGraphs ==
    /\ uniqval = [g \in Graphs |-> UniqvalStart]
    /\ gNodes = [g \in Graphs |-> <<>>]
    /\ gEdges = [g \in Graphs |-> <<>>]
    /\ lookup = [g \in Graphs |-> EmptyLookup]
    /\ json = NoJson
    /\ InitRank
    /\ search = NoSearch

InitHeap ==
    /\ inputNode = NewHeap.inputNode
    /\ outputNode = NewHeap.outputNode
    /\ duplex = NewHeap.duplex
    /\ distance = NewHeap.distance
    /\ edges = NewHeap.edges
    /\ inputEdges = NewHeap.inputEdges
    /\ outputEdges = NewHeap.outputEdges

\* --------------------------------------------------- the linking discipline
\* Nodes and edges constructed on their own (new Node(...), new Edge(...),
\* as edge.spec.ts and node.spec.ts do), then linked and unlinked at will.
Init ==
    /\ InitHeap
    /\ InitGraphs
    /\ nodeId = [n \in Nodes |-> <<>>]
    /\ edgeId = [e \in Edges |-> <<>>]
    /\ nodeData = [n \in Nodes |-> PlainData]
    /\ edgeData = [e \in Edges |-> PlainData]
    /\ numNodes = NumNodes
    /\ numEdges = NumEdges
    /\ found = <<>>
    /\ last = NoCall

\* edge.link(a, b, d)
Link(e, a, b, d) ==
    /\ SetHeap(EdgeLink(Heap, e, a, b, d))
    /\ last' = Call("link", e, Null, a, b, d, 0, IsLinked(Heap, e), FALSE)
    /\ UNCHANGED <<unitVars, graphVars, found, rankVars, search>>

\* edge.unlink()
Unlink(e) ==
    /\ SetHeap(EdgeUnlink(Heap, e))
    /\ last' = Call("unlink", e, Null, inputNode[e], outputNode[e], duplex[e], 0,
                    IsLinked(Heap, e), FALSE)
    /\ UNCHANGED <<unitVars, graphVars, found, rankVars, search>>

\* node.unlink(); a TypeError leaves the heap as the loop got it so far.
UnlinkNode(n) ==
    LET r == NodeUnlink(Heap, n) IN
    /\ SetHeap(r.heap)
    /\ last' = Call("Node.unlink", Null, n, Null, Null, FALSE, Len(edges[n]),
                    FALSE, r.threw)
    /\ UNCHANGED <<unitVars, graphVars, found, rankVars, search>>

\* How often the fields of edge e say it is in each list of node n.
B2N(p) == IF p THEN 1 ELSE 0
WantEdges(h, e, n) ==
    IF IsLinked(h, e) THEN B2N(h.inputNode[e] = n) + B2N(h.outputNode[e] = n) ELSE 0
WantOutput(h, e, n) ==
    IF IsLinked(h, e)
    THEN B2N(h.inputNode[e] = n) + B2N(h.duplex[e] /\ h.outputNode[e] = n) ELSE 0
WantInput(h, e, n) ==
    IF IsLinked(h, e)
    THEN B2N(h.outputNode[e] = n) + B2N(h.duplex[e] /\ h.inputNode[e] = n) ELSE 0

\* Every list holds each edge as often as the edge's fields say.
ListsAsLinked(h) ==
    \A n \in Nodes, e \in Edges :
        /\ Count(h.edges[n], e) = WantEdges(h, e, n)
        /\ Count(h.outputEdges[n], e) = WantOutput(h, e, n)
        /\ Count(h.inputEdges[n], e) = WantInput(h, e, n)

\* edge.duplex = v, a write to the public field from outside the class.  The
\* lists grow without bound once edges are unlinked under a changed flag, so
\* the model writes a flag only while no earlier write has left its mark.
SetDuplex(e, v) ==
    /\ ListsAsLinked(Heap)
    /\ duplex' = [duplex EXCEPT ![e] = v]
    /\ last' = Call("duplex=", e, Null, inputNode[e], outputNode[e], v, 0,
                    IsLinked(Heap, e), FALSE)
    /\ UNCHANGED <<inputNode, outputNode, distance, edges, inputEdges, outputEdges,
                   unitVars, graphVars, found, rankVars, search>>

Next ==
    \/ \E e \in Edges, a \in Nodes, b \in Nodes, d \in BOOLEAN : Link(e, a, b, d)
    \/ \E e \in Edges : Unlink(e)
    \/ \E n \in Nodes : UnlinkNode(n)

Spec == Init /\ [][Next]_vars

NextFlag ==
    \/ \E e \in Edges, a \in Nodes, b \in Nodes, d \in BOOLEAN : Link(e, a, b, d)
    \/ \E e \in Edges : Unlink(e)
    \/ \E n \in Nodes : UnlinkNode(n)
    \/ \E e \in Edges, v \in BOOLEAN : SetDuplex(e, v)

\* The linking discipline with callers that also write the duplex field.
SpecFlag == Init /\ [][NextFlag]_vars


\* ------------------------------------------------- claims: linking (C5-C9)
\* e occurs in none of the three lists of node n.
InNoList(e, n) ==
    /\ Count(edges[n], e) = 0
    /\ Count(inputEdges[n], e) = 0
    /\ Count(outputEdges[n], e) = 0

\* C5: in every state reached by link, unlink and Node.unlink calls, an
\* edge linked non-duplex from A to B, A # B, occurs exactly once in
\* A.outputEdges, A.edges, B.inputEdges and B.edges, not in A.inputEdges or
\* B.outputEdges, and in no list of any other node.
C5_NonDuplexLists ==
    \A e \in Edges :
        LET A == inputNode[e]
            B == outputNode[e]
        IN (A # Null /\ B # Null /\ A # B /\ ~duplex[e]) =>
            /\ Count(outputEdges[A], e) = 1
            /\ Count(edges[A], e) = 1
            /\ Count(inputEdges[B], e) = 1
            /\ Count(edges[B], e) = 1
            /\ Count(inputEdges[A], e) = 0
            /\ Count(outputEdges[B], e) = 0
            /\ \A n \in Nodes \ {A, B} : InNoList(e, n)

\* An edge that was linked elsewhere before is linked non-duplex between
\* two distinct nodes while a third node exists.
C5_Witness ==
    /\ last.op = "link" /\ last.wasLinked /\ ~last.d /\ last.a # last.b
    /\ inputNode[last.e] = last.a /\ outputNode[last.e] = last.b
    /\ \E f \in Edges \ {last.e} : IsLinked(Heap, f)

\* C6: after link(A, B, true) with A # B the edge occurs in inputEdges,
\* outputEdges and edges of both A and B; after unlink() of an edge that was
\* linked duplex between distinct A and B it occurs in none of the six lists.
C6_DuplexLists ==
    /\ (last.op = "link" /\ last.d /\ last.a # last.b) =>
          \A n \in {last.a, last.b} :
              /\ Count(edges[n], last.e) > 0
              /\ Count(inputEdges[n], last.e) > 0
              /\ Count(outputEdges[n], last.e) > 0
    /\ (last.op = "unlink" /\ last.wasLinked /\ last.d /\ last.a # last.b) =>
          \A n \in {last.a, last.b} : InNoList(last.e, n)

\* A duplex edge between distinct nodes has just been unlinked.
C6_Witness ==
    last.op = "unlink" /\ last.wasLinked /\ last.d /\ last.a # last.b

\* C7: unlink() returns true, leaves both endpoints null and duplex false,
\* and leaves the edge in no list of either former endpoint, whatever the
\* duplex flag said when it was called; on an unlinked edge it changes
\* nothing.
C7_UnlinkClearsAll ==
    [][last'.op = "unlink" =>
          /\ ~last'.threw
          /\ inputNode'[last'.e] = Null
          /\ outputNode'[last'.e] = Null
          /\ duplex'[last'.e] = FALSE
          /\ \A n \in {last'.a, last'.b} \ {Null} :
                /\ Count(edges'[n], last'.e) = 0
                /\ Count(inputEdges'[n], last'.e) = 0
                /\ Count(outputEdges'[n], last'.e) = 0
          /\ (~last'.wasLinked => UNCHANGED <<inputNode, outputNode, edges,
                                              inputEdges, outputEdges>>)]_vars

\* C8: Node.unlink() on a node with k >= 0 incident edges does not throw,
\* leaves every edge that was incident to the node with both endpoints null,
\* and leaves the node's three lists empty.
C8_NodeUnlinkAll ==
    [][last'.op = "Node.unlink" =>
          /\ ~last'.threw
          /\ \A e \in Edges :
                Count(edges[last'.n], e) > 0 =>
                    inputNode'[e] = Null /\ outputNode'[e] = Null
          /\ edges'[last'.n] = <<>>
          /\ inputEdges'[last'.n] = <<>>
          /\ outputEdges'[last'.n] = <<>>]_vars

\* C9: link(A, B, d) on an edge that is already linked leaves the edge in
\* the lists exactly as often as link(A, B, d) on a fresh edge does, with the
\* same endpoints and flag, and leaves the other edges' entries as they were.
Without(s, e) == SelectSeq(s, LAMBDA x : x # e)

C9_Relink ==
    [][last'.op = "link" =>
          LET e == last'.e
              fresh == EdgeLink(NewHeap, e, last'.a, last'.b, last'.d)
          IN /\ inputNode'[e] = last'.a
             /\ outputNode'[e] = last'.b
             /\ duplex'[e] = last'.d
             /\ \A n \in Nodes :
                   /\ Count(edges'[n], e) = Count(fresh.edges[n], e)
                   /\ Count(inputEdges'[n], e) = Count(fresh.inputEdges[n], e)
                   /\ Count(outputEdges'[n], e) = Count(fresh.outputEdges[n], e)
                   /\ Count(edges'[n], e) = WantEdges(fresh, e, n)
                   /\ Count(inputEdges'[n], e) = WantInput(fresh, e, n)
                   /\ Count(outputEdges'[n], e) = WantOutput(fresh, e, n)
                   /\ Without(edges'[n], e) = Without(edges[n], e)
                   /\ Without(inputEdges'[n], e) = Without(inputEdges[n], e)
                   /\ Without(outputEdges'[n], e) = Without(outputEdges[n], e)]_vars

\* A duplex edge has been linked again, to other nodes and non-duplex.
C9_Witness ==
    /\ last.op = "link" /\ last.wasLinked /\ ~last.d
    /\ \E n \in Nodes \ {last.a, last.b} :
          \E f \in Edges \ {last.e} : Count(edges[n], f) > 0


\* --------------------------------------------------- identities and JSON
\* Graphs that create nodes and edges, link them, write themselves as JSON
\* and load the JSON written last.  The objects are constructed one after
\* the other, NumNodes nodes and NumEdges edges at most.
InitIds ==
    /\ IsWorld(NewWorld(Nodes, Edges))
    /\ json = NoJson
    /\ InitRank
    /\ search = NoSearch
    /\ found = <<>>
    /\ last = NoCall

\* g.createNode("unit")
CreateNode(g) ==
    /\ numNodes < NumNodes
    /\ SetWorld(GraphCreateNode(World, g, PlainData))
    /\ last' = [Call("createNode", Null, numNodes + 1, Null, Null, FALSE, 0, FALSE, FALSE)
                  EXCEPT !.g = g]
    /\ UNCHANGED <<json, found, rankVars, search>>

\* g.createEdge("unit")
CreateEdge(g) ==
    /\ numEdges < NumEdges
    /\ SetWorld(GraphCreateEdge(World, g, PlainData))
    /\ last' = [Call("createEdge", numEdges + 1, Null, Null, Null, FALSE, 0, FALSE, FALSE)
                  EXCEPT !.g = g]
    /\ UNCHANGED <<json, found, rankVars, search>>

\* e.link(a, b, d) for an edge of Graph g that is not linked and two nodes
\* of Graph g
LinkIn(g, i, j, k, d) ==
    /\ i \in 1..Len(gEdges[g]) /\ j \in 1..Len(gNodes[g]) /\ k \in 1..Len(gNodes[g])
    /\ ~IsLinked(Heap, gEdges[g][i])
    /\ SetHeap(EdgeLink(Heap, gEdges[g][i], gNodes[g][j], gNodes[g][k], d))
    /\ last' = [Call("link", gEdges[g][i], Null, gNodes[g][j], gNodes[g][k], d, 0,
                     IsLinked(Heap, gEdges[g][i]), FALSE) EXCEPT !.g = g]
    /\ UNCHANGED <<unitVars, graphVars, found, rankVars, search>>

\* g.toJSON()
ToJSON(g) ==
    /\ json' = GraphToJSON(World, g)
    /\ last' = [Call("toJSON", Null, Null, Null, Null, FALSE, 0, FALSE, FALSE)
                  EXCEPT !.g = g]
    /\ UNCHANGED <<heapVars, unitVars, uniqval, gNodes, gEdges, lookup, found, rankVars, search>>

\* g.fromJSON(json) with the JSON written last
FromJSON(g) ==
    LET r == GraphFromJSON(World, g, json) IN
    /\ ~json.none
    /\ numNodes + Len(json.nodes) <= NumNodes
    /\ numEdges + Len(json.edges) <= NumEdges
    /\ SetWorld(r.world)
    /\ last' = [Call("fromJSON", Null, Null, Null, Null, FALSE, 0, FALSE, r.threw)
                  EXCEPT !.g = g]
    /\ UNCHANGED <<json, found, rankVars, search>>

NextIds ==
    \/ \E g \in Graphs : CreateNode(g)
    \/ \E g \in Graphs : CreateEdge(g)
    \/ \E g \in Graphs, i \in Edges, j \in Nodes, k \in Nodes, d \in BOOLEAN :
          LinkIn(g, i, j, k, d)
    \/ \E g \in Graphs : ToJSON(g)
    \/ \E g \in Graphs : FromJSON(g)

SpecIds == InitIds /\ [][NextIds]_vars

\* ------------------------------------------------------------ load and save
\* Every Graph of the model is made by new Graph(), without readFile and
\* without writeFile.
\* g.load(filename) without readFile: return this.init()
Load(g) ==
    /\ SetWorld(GraphInit(World, g))
    /\ last' = [Call("load", Null, Null, Null, Null, FALSE, 0, FALSE, FALSE)
                  EXCEPT !.g = g]
    /\ UNCHANGED <<json, found, rankVars, search>>

\* g.save(filename) without writeFile: return
Save(g) ==
    /\ last' = [Call("save", Null, Null, Null, Null, FALSE, 0, FALSE, FALSE)
                  EXCEPT !.g = g]
    /\ UNCHANGED <<heapVars, unitVars, graphVars, found, rankVars, search>>

NextFiles ==
    \/ \E g \in Graphs : CreateNode(g)
    \/ \E g \in Graphs : CreateEdge(g)
    \/ \E g \in Graphs, i \in Edges, j \in Nodes, k \in Nodes, d \in BOOLEAN :
          LinkIn(g, i, j, k, d)
    \/ \E g \in Graphs : Load(g)
    \/ \E g \in Graphs : Save(g)

SpecFiles == InitIds /\ [][NextFiles]_vars

\* ---------------------------------------------------- claims: identities
\* The units a Graph owns: the entries of its nodes and edges lists.
Owned(g) ==
    {NodeRef(gNodes[g][i]) : i \in 1..Len(gNodes[g])}
        \cup {EdgeRef(gEdges[g][i]) : i \in 1..Len(gEdges[g])}

UnitId(u) == IF u.kind = "node" THEN nodeId[u.obj] ELSE edgeId[u.obj]

\* C10: after any createNode, createEdge and fromJSON calls on a Graph no
\* two units it owns have the same id, and getUnit(u.id) is u for every unit
\* u it owns.
C10_UniqueIds ==
    \A g \in Graphs :
        /\ \A u \in Owned(g), v \in Owned(g) : UnitId(u) = UnitId(v) => u = v
        /\ \A u \in Owned(g) : GraphGetUnit(World, g, UnitId(u)) = u

\* ------------------------------------------------------ the JSON round trip
\* Graph 1 is built by createNode, createEdge, link, unlink and setDistance;
\* then Graph 2 is new Graph().fromJSON(graph1.toJSON()).  Graph 1 creates
\* JsonNodes nodes and JsonEdges edges at most, and the copy needs as many
\* objects again.
JsonNodes == 2
JsonEdges == 2
JNodes == 1..(2 * JsonNodes)
JEdges == 1..(2 * JsonEdges)

\* The entity and properties that createNode and createEdge are called with.
UnitDatas == {UnitData("a", NoProperties), UnitData("b", [k \in {"name"} |-> "A"])}

InitJson ==
    /\ IsWorld(NewWorld(JNodes, JEdges))
    /\ json = NoJson
    /\ InitRank
    /\ search = NoSearch
    /\ found = <<>>
    /\ last = NoCall

Copied == last.op = "fromJSON"

\* graph1.createNode(entity, properties)
JsonCreateNode(data) ==
    /\ ~Copied
    /\ Len(gNodes[1]) < JsonNodes
    /\ SetWorld(GraphCreateNode(World, 1, data))
    /\ last' = [Call("createNode", Null, numNodes + 1, Null, Null, FALSE, 0, FALSE, FALSE)
                  EXCEPT !.g = 1]
    /\ UNCHANGED <<json, found, rankVars, search>>

\* graph1.createEdge(entity, properties)
JsonCreateEdge(data) ==
    /\ ~Copied
    /\ Len(gEdges[1]) < JsonEdges
    /\ SetWorld(GraphCreateEdge(World, 1, data))
    /\ last' = [Call("createEdge", numEdges + 1, Null, Null, Null, FALSE, 0, FALSE, FALSE)
                  EXCEPT !.g = 1]
    /\ UNCHANGED <<json, found, rankVars, search>>

\* e.link(a, b, d) for an edge of Graph 1 that is not linked and two nodes
\* of Graph 1
JsonLink(e, a, b, d) ==
    /\ ~Copied
    /\ e \in 1..Len(gEdges[1]) /\ ~IsLinked(Heap, gEdges[1][e])
    /\ e \in 1..Len(gEdges[1]) /\ a \in 1..Len(gNodes[1]) /\ b \in 1..Len(gNodes[1])
    /\ SetHeap(EdgeLink(Heap, gEdges[1][e], gNodes[1][a], gNodes[1][b], d))
    /\ last' = [Call("link", gEdges[1][e], Null, gNodes[1][a], gNodes[1][b], d, 0,
                     IsLinked(Heap, gEdges[1][e]), FALSE) EXCEPT !.g = 1]
    /\ UNCHANGED <<unitVars, graphVars, found, rankVars, search>>

\* e.unlink() for a linked edge of Graph 1
JsonUnlink(e) ==
    /\ ~Copied
    /\ e \in 1..Len(gEdges[1])
    /\ IsLinked(Heap, gEdges[1][e])
    /\ SetHeap(EdgeUnlink(Heap, gEdges[1][e]))
    /\ last' = [Call("unlink", gEdges[1][e], Null, inputNode[gEdges[1][e]],
                     outputNode[gEdges[1][e]], duplex[gEdges[1][e]], 0, TRUE, FALSE)
                  EXCEPT !.g = 1]
    /\ UNCHANGED <<unitVars, graphVars, found, rankVars, search>>

\* e.setDistance(v) for an edge of Graph 1
JsonSetDistance(e, v) ==
    /\ ~Copied
    /\ e \in 1..Len(gEdges[1])
    /\ distance[gEdges[1][e]] # Abs(v)
    /\ SetHeap(EdgeSetDistance(Heap, gEdges[1][e], v))
    /\ last' = [Call("setDistance", gEdges[1][e], Null, Null, Null, FALSE, v, FALSE, FALSE)
                  EXCEPT !.g = 1]
    /\ UNCHANGED <<unitVars, graphVars, found, rankVars, search>>

\* graph2 = new Graph().fromJSON(graph1.toJSON())
JsonRoundTrip ==
    LET j == GraphToJSON(World, 1)
        r == GraphFromJSON(World, 2, j)
    IN /\ ~Copied
       /\ json' = j
       /\ SetWorld(r.world)
       /\ last' = [Call("fromJSON", Null, Null, Null, Null, FALSE, 0, FALSE, r.threw)
                     EXCEPT !.g = 2]
       /\ UNCHANGED <<found, rankVars, search>>

NextJson ==
    \/ \E data \in UnitDatas : JsonCreateNode(data)
    \/ \E data \in UnitDatas : JsonCreateEdge(data)
    \/ \E e \in 1..JsonEdges, a \in 1..JsonNodes, b \in 1..JsonNodes, d \in BOOLEAN :
          JsonLink(e, a, b, d)
    \/ \E e \in 1..JsonEdges : JsonUnlink(e)
    \/ \E e \in 1..JsonEdges, v \in {-1, 0} : JsonSetDistance(e, v)
    \/ JsonRoundTrip

SpecJson == InitJson /\ [][NextJson]_vars

\* ---------------------------------------------------- claims: round trip
\* The id of an edge's endpoint, "" when it has none.
EndId(n) == IF n = Null THEN <<>> ELSE nodeId[n]

SameNode(m, n) == nodeId[m] = nodeId[n] /\ nodeData[m] = nodeData[n]

SameEdge(e, f) ==
    /\ edgeId[e] = edgeId[f] /\ edgeData[e] = edgeData[f]
    /\ EndId(inputNode[e]) = EndId(inputNode[f])
    /\ EndId(outputNode[e]) = EndId(outputNode[f])
    /\ duplex[e] = duplex[f]
    /\ distance[e] = distance[f]

\* C11: new Graph().fromJSON(G.toJSON()) completes without error for every
\* graph G built by createNode, createEdge, link, unlink and setDistance, and
\* the copy has as many nodes and edges as G, each with the id, entity and
\* properties of the one it copies, each edge with the same endpoints by
\* id, duplex flag and distance.
C11_RoundTrip ==
    Copied =>
        /\ ~last.threw
        /\ Len(gNodes[2]) = Len(gNodes[1])
        /\ Len(gEdges[2]) = Len(gEdges[1])
        /\ \A i \in 1..Len(gNodes[1]) :
              i <= Len(gNodes[2]) /\ SameNode(gNodes[1][i], gNodes[2][i])
        /\ \A i \in 1..Len(gEdges[1]) :
              i <= Len(gEdges[2]) /\ SameEdge(gEdges[1][i], gEdges[2][i])

\* The same for the graphs in which every edge is linked.
C11_RoundTripLinked ==
    (Copied /\ \A i \in 1..Len(gEdges[1]) : IsLinked(Heap, gEdges[1][i]))
        => C11_RoundTrip

\* ------------------------------------------------------- searching a graph
MaxDistance == 1

\* One Graph that has created every node and every edge; the edges are then
\* linked one after the other, each with a distance, and the graph is
\* searched at any point.
InitSearch ==
    /\ IsWorld(CreateEdges(CreateNodes(NewWorld(Nodes, Edges), 1, NumNodes), 1, NumEdges))
    /\ json = NoJson
    /\ InitRank
    /\ search = NoSearch
    /\ found = <<>>
    /\ last = NoCall

\* graph.createEdge(...).link(a, b, d).setDistance(v) for the next edge
AddEdge(e, a, b, d, v) ==
    /\ ~IsLinked(Heap, e)
    /\ \A f \in 1..(e - 1) : IsLinked(Heap, f)
    /\ SetHeap(EdgeSetDistance(EdgeLink(Heap, e, a, b, d), e, v))
    /\ last' = Call("link", e, Null, a, b, d, 0, FALSE, FALSE)
    /\ found' = <<>>
    /\ UNCHANGED <<unitVars, graphVars, rankVars, search>>

\* A search reads the heap and writes nothing to it, so a search after a
\* search would start from the same graph: the model searches a graph as the
\* last link call left it.
Searched == last.op \in {"closest", "trace"}

\* graph.closest(n, {algorithm: alg, direction: dir})
Closest(n, alg, dir) ==
    LET r == GraphClosest(Heap, nodeId, n, alg, Nodes, 0, dir, 0, 0) IN
    /\ ~Searched
    /\ found' = r.found
    /\ last' = [Call("closest", Null, n, Null, Null, FALSE, dir, FALSE, r.threw)
                  EXCEPT !.alg = alg]
    /\ UNCHANGED <<heapVars, unitVars, graphVars, rankVars, search>>

\* graph.trace(a, b, dir); found is the list of the one path returned
Trace(a, b, dir) ==
    LET r == GraphTrace(Heap, nodeId, a, b, dir) IN
    /\ ~Searched
    /\ found' = <<r.path>>
    /\ last' = Call("trace", Null, a, a, b, FALSE, dir, FALSE, r.threw)
    /\ UNCHANGED <<heapVars, unitVars, graphVars, rankVars, search>>

Directions == {-1, 0, 1}
Algorithms == {"dijkstra", "hybrid"}

NextSearch ==
    \/ \E e \in Edges, a \in Nodes, b \in Nodes, d \in BOOLEAN, v \in 0..MaxDistance :
          AddEdge(e, a, b, d, v)
    \/ \E n \in Nodes, alg \in Algorithms, dir \in Directions : Closest(n, alg, dir)
    \/ \E a \in Nodes, b \in Nodes, dir \in Directions : Trace(a, b, dir)

SpecSearch == InitSearch /\ [][NextSearch]_vars

\* ------------------------------------------ searching a graph with options
FilterMaxDistance == 2
MaxCount == 2
MaxDepth == 2

\* The sets of nodes a compare function accepts: every node, or all but one.
PassSets == {Nodes} \cup {Nodes \ {x} : x \in {1}}

\* graph.closest(n, {algorithm, direction, compare, count, minDepth, maxDepth})
ClosestWith(n, alg, dir, pass, count, minDepth, maxDepth) ==
    LET r == GraphClosest(Heap, nodeId, n, alg, pass, count, dir, minDepth, maxDepth) IN
    /\ ~Searched
    /\ found' = r.found
    /\ last' = [op |-> "closest", e |-> Null, n |-> n, a |-> Null, b |-> Null,
                d |-> FALSE, k |-> dir, wasLinked |-> FALSE, threw |-> r.threw,
                alg |-> alg, g |-> 0, pass |-> pass, count |-> count,
                minDepth |-> minDepth, maxDepth |-> maxDepth]
    /\ UNCHANGED <<heapVars, unitVars, graphVars, rankVars, search>>

\* The graphs are those of AddEdge with distances up to FilterMaxDistance;
\* the first edge leaves node 1 for node 1 or 2, which every graph does after
\* a renaming of its nodes.
NextFilter ==
    \/ \E e \in Edges, a \in Nodes, b \in Nodes, d \in BOOLEAN, v \in 0..FilterMaxDistance :
          /\ e = 1 => (a = 1 /\ b <= 2)
          /\ AddEdge(e, a, b, d, v)
    \/ /\ ~Searched
       /\ \E n \in Nodes, alg \in Algorithms, dir \in Directions, pass \in PassSets,
             count \in 0..MaxCount, minDepth \in 0..MaxDepth, maxDepth \in 0..MaxDepth :
             ClosestWith(n, alg, dir, pass, count, minDepth, maxDepth)
    \/ \E a \in Nodes, b \in Nodes, dir \in Directions : Trace(a, b, dir)

SpecFilter == InitSearch /\ [][NextFilter]_vars

\* ------------------------------------------- searching a graph that fans out
WideNodes == 6
WideEdges == 5
WideMaxDistance == 5

WNodes == 1..WideNodes
WEdges == 1..WideEdges

\* One Graph that has created WideNodes nodes and WideEdges edges.  Edge e
\* then links node 1 or the node linked last to the next node, with a
\* distance of 1..WideMaxDistance: stars, chains and what lies between.
InitWide ==
    /\ IsWorld(CreateEdges(CreateNodes(NewWorld(WNodes, WEdges), 1, WideNodes), 1, WideEdges))
    /\ json = NoJson
    /\ InitRank
    /\ search = NoSearch
    /\ found = <<>>
    /\ last = NoCall

\* graph.createEdge(...).link(a, e + 1).setDistance(v) for the next edge
WideAddEdge(e, a, v) ==
    /\ ~IsLinked(Heap, e)
    /\ \A f \in 1..(e - 1) : IsLinked(Heap, f)
    /\ e + 1 \in WNodes
    /\ a \in {1, e}
    /\ SetHeap(EdgeSetDistance(EdgeLink(Heap, e, a, e + 1, FALSE), e, v))
    /\ last' = Call("link", e, Null, a, e + 1, FALSE, 0, FALSE, FALSE)
    /\ found' = <<>>
    /\ UNCHANGED <<unitVars, graphVars, rankVars, search>>

\* graph.closest(node 1)
WideClosest ==
    LET r == GraphClosest(Heap, nodeId, 1, "dijkstra", WNodes, 0, 0, 0, 0) IN
    /\ ~Searched
    /\ found' = r.found
    /\ last' = [Call("closest", Null, 1, Null, Null, FALSE, 0, FALSE, r.threw)
                  EXCEPT !.alg = "dijkstra"]
    /\ UNCHANGED <<heapVars, unitVars, graphVars, rankVars, search>>

NextWide ==
    \/ \E e \in WEdges, a \in WNodes, v \in 1..WideMaxDistance : WideAddEdge(e, a, v)
    \/ WideClosest

SpecWide == InitWide /\ [][NextWide]_vars

\* ------------------------------------------ the searches, step by step
\* The two searches of closest(node 1) on the graphs of SpecWide when every
\* edge is linked, one step of their loops at a time.  search holds the
\* locals: the algorithm, the options, the state of the loops, the depth
\* curDepth that the outer loop of Graph.search took last ({} before the
\* first), and read, the nodes that were taken from a queue so far.
Running == search # NoSearch

\* const searchLocals of Graph.search after enqueue(node, 0), and of
\* HybridSearch.search after enqueue(startNode, 0) and visited.add.
SearchLocals(h, ids, o, node, alg) ==
    IF alg = "hybrid"
    THEN [nodePath |-> (ids[node] :> <<NodeRef(node)>>),
          pq |-> HybridEnqueue(h, o, <<>>, node, 0),
          found |-> <<>>, visited |-> {ids[node]}, threw |-> FALSE, done |-> FALSE]
    ELSE [nodePath |-> (ids[node] :> <<NodeRef(node)>>),
          depthMap |-> (0 :> <<node>>),
          depthList |-> <<0>>,
          found |-> <<>>, threw |-> FALSE, done |-> FALSE]

\* graph.closest(node, {algorithm, direction}) is called, or, with op "trace",
\* graph.trace(node, b, direction), which searches for b with a count of 1.
StepBeginAt(op, node, b, alg, direction, pass, count) ==
    LET o == SearchOptions(pass, count, direction, 0, 0) IN
    /\ ~Running /\ ~Searched
    /\ search' = [op |-> op, node |-> node, b |-> b, alg |-> alg, o |-> o,
                  curDepth |-> {}, read |-> <<>>,
                  st |-> SearchLocals(Heap, nodeId, o, node, alg)]
    /\ UNCHANGED <<heapVars, unitVars, graphVars, found, last, rankVars>>

\* graph.closest(node 1, {algorithm}) is called.
StepBegin(alg) ==
    /\ \A e \in WEdges : IsLinked(Heap, e)
    /\ StepBeginAt("closest", 1, Null, alg, 0, WNodes, 0)

\* The queue of the depth taken last is empty (or no depth was taken yet).
QueueEmpty ==
    \A d \in search.curDepth : search.st.depthMap[d] = <<>>

\* The outer loop of Graph.search: curDepth = depthList.shift().
StepShift ==
    /\ Running /\ search.alg = "dijkstra"
    /\ ~search.st.done /\ ~search.st.threw
    /\ QueueEmpty
    /\ search.st.depthList # <<>>
    /\ search' = [search EXCEPT !.curDepth = {Head(search.st.depthList)},
                                !.st.depthList = Tail(@)]
    /\ UNCHANGED <<heapVars, unitVars, graphVars, found, last, rankVars>>

\* One pass of the inner loop of Graph.search: queue.shift(), readNode,
\* found.push and the test of count.
StepRead ==
    /\ Running /\ search.alg = "dijkstra"
    /\ ~search.st.done /\ ~search.st.threw
    /\ ~QueueEmpty
    /\ \E d \in search.curDepth :
         LET node == Head(search.st.depthMap[d])
             st1 == [search.st EXCEPT !.depthMap[d] = Tail(@)]
             st2 == ReadNode(Heap, nodeId, search.o, st1, node, d)
         IN search' = [search EXCEPT
                !.read = Append(@, node),
                !.st = IF ~st2.threw /\ search.o.count # 0
                          /\ Len(st2.found) >= search.o.count
                       THEN [st2 EXCEPT !.done = TRUE] ELSE st2]
    /\ UNCHANGED <<heapVars, unitVars, graphVars, found, last, rankVars>>

\* One pass of the while loop of HybridSearch.search.
HybridPass(h, ids, o, st) ==
    LET current == Head(st.pq)
        node == current.node
        curDistance == current.distance
        st1 == [st EXCEPT !.pq = Tail(@)]
    IN IF o.maxDepth # 0 /\ curDistance > o.maxDepth THEN st1
       ELSE
         LET push == curDistance >= o.minDepth /\ node \in o.pass
             st2 == IF push
                    THEN [st1 EXCEPT !.found =
                            Append(@, GetPath(h, ids, node, st1.nodePath))]
                    ELSE st1
         IN IF push /\ o.count # 0 /\ Len(st2.found) >= o.count
            THEN [st2 EXCEPT !.done = TRUE]
            ELSE HybridEdges(h, ids, o, st2, node, curDistance,
                             EdgesToward(h, node, o.direction), 1)

StepHybrid ==
    /\ Running /\ search.alg = "hybrid"
    /\ ~search.st.done /\ ~search.st.threw
    /\ search.st.pq # <<>>
    /\ search' = [search EXCEPT
                    !.read = Append(@, Head(search.st.pq).node),
                    !.st = HybridPass(Heap, nodeId, search.o, search.st)]
    /\ UNCHANGED <<heapVars, unitVars, graphVars, found, last, rankVars>>

\* The search has nothing left to do.
StepsDone ==
    \/ search.st.done
    \/ search.st.threw
    \/ search.alg = "hybrid" /\ search.st.pq = <<>>
    \/ search.alg = "dijkstra" /\ QueueEmpty /\ search.st.depthList = <<>>

\* return found, and for trace the first path of found or an empty Path.
StepReturn ==
    /\ Running /\ StepsDone
    /\ found' = IF search.op = "closest" THEN search.st.found
                ELSE IF search.st.found # <<>> THEN <<search.st.found[1]>>
                ELSE << <<>> >>
    /\ last' = IF search.op = "closest"
               THEN [Call("closest", Null, search.node, Null, Null, FALSE,
                          search.o.direction, FALSE, search.st.threw)
                       EXCEPT !.alg = search.alg]
               ELSE Call("trace", Null, search.node, search.node, search.b, FALSE,
                         search.o.direction, FALSE, search.st.threw)
    /\ search' = NoSearch
    /\ UNCHANGED <<heapVars, unitVars, graphVars, rankVars>>

NextSteps ==
    \/ \E e \in WEdges, a \in WNodes, v \in 1..WideMaxDistance :
         ~Running /\ WideAddEdge(e, a, v)
    \/ \E alg \in {"dijkstra", "hybrid"} : StepBegin(alg)
    \/ StepShift
    \/ StepRead
    \/ StepHybrid
    \/ StepReturn

SpecSteps == InitWide /\ [][NextSteps]_vars

\* The same steps on the graphs of SpecFilter, which have cycles, loops,
\* parallel and duplex edges and distances of 0, from every node in every
\* direction.  The loops of a search run on once they are entered.
NextCycles ==
    \/ \E e \in Edges, a \in Nodes, b \in Nodes, d \in BOOLEAN, v \in 0..FilterMaxDistance :
          /\ e = 1 => (a = 1 /\ b <= 2)
          /\ ~Running
          /\ AddEdge(e, a, b, d, v)
    \/ \E n \in Nodes, alg \in Algorithms, dir \in Directions :
          StepBeginAt("closest", n, Null, alg, dir, Nodes, 0)
    \/ \E a \in Nodes, b \in Nodes, dir \in Directions :
          StepBeginAt("trace", a, b, "dijkstra", dir, {b}, 1)
    \/ StepShift
    \/ StepRead
    \/ StepHybrid
    \/ StepReturn

SpecCycles ==
    /\ InitSearch
    /\ [][NextCycles]_vars
    /\ WF_vars(StepShift \/ StepRead \/ StepHybrid \/ StepReturn)

\* The steps return what the search returns in one piece.
StepsAgree ==
    Searched =>
        IF last.op = "closest"
        THEN found = GraphClosest(Heap, nodeId, last.n, last.alg,
                                  1..numNodes,
                                  0, last.k, 0, 0).found
        ELSE found = <<GraphTrace(Heap, nodeId, last.a, last.b, last.k).path>>

\* -------------------------------------------------- claims: search (C1-C4)
\* A search in direction dir may step from x to y over edge e.
MayStep(e, x, y, dir) ==
    LET fwd == inputNode[e] = x /\ outputNode[e] = y
        bwd == outputNode[e] = x /\ inputNode[e] = y
    IN /\ inputNode[e] # Null /\ outputNode[e] # Null
       /\ IF dir = 0 \/ duplex[e] THEN fwd \/ bwd
          ELSE IF dir > 0 THEN fwd ELSE bwd

\* More than the distance of any walk without a repeated node.
Infinity == (NumNodes + WideNodes) * (MaxDistance + WideMaxDistance) + 1

\* One round of relaxation of the distances dist over every permitted step.
RelaxOnce(ns, es, dist, dir) ==
    [y \in ns |->
        LET via == {dist[x] + distance[e] :
                      <<x, e>> \in {p \in ns \X es :
                                      dist[p[1]] < Infinity /\ MayStep(p[2], p[1], y, dir)}}
            all == via \cup {dist[y]}
        IN CHOOSE m \in all : \A z \in all : m <= z]

RECURSIVE RelaxTimes(_, _, _, _, _)
RelaxTimes(ns, es, dist, dir, k) ==
    IF k = 0 THEN dist ELSE RelaxTimes(ns, es, RelaxOnce(ns, es, dist, dir), dir, k - 1)

\* The least total distance of a walk from src to each node (Infinity where
\* there is none), over the edges permitted by dir.
MinDistance(ns, es, src, dir) ==
    RelaxTimes(ns, es, [y \in ns |-> IF y = src THEN 0 ELSE Infinity], dir,
               Cardinality(ns))

Reachable(ns, es, src, dir) == {y \in ns : MinDistance(ns, es, src, dir)[y] < Infinity}

FoundEnds == {PathEnd(found[i]) : i \in {j \in 1..Len(found) : found[j] # <<>>}}

\* C1: the paths returned by closest(source) with the default algorithm have
\* non-decreasing distance() values, however many distinct distances are
\* pending at once and in whatever order they are discovered.
C1_NonDecreasing ==
    (last.op = "closest" /\ last.alg = "dijkstra") =>
        \A i \in 1..Len(found) : \A j \in (i + 1)..Len(found) :
            PathDistance(Heap, found[i]) <= PathDistance(Heap, found[j])

\* C2: every path returned by trace or by closest with the default algorithm
\* has the least total distance of all walks from the source to its end
\* node over edges permitted by the direction.
C2_ShortestPaths ==
    ((last.op = "closest" /\ last.alg = "dijkstra") \/ last.op = "trace") =>
        \A i \in 1..Len(found) :
            found[i] # <<>> =>
                PathDistance(Heap, found[i])
                    = MinDistance(Nodes, Edges, last.n, last.k)[PathEnd(found[i]).obj]

\* C3: closest(source) without count, depths or compare, default or hybrid,
\* returns one path for each node reachable from the source over edges
\* permitted by the direction, the source itself as a one-node path, no path
\* for another node and no two paths to one node.
C3_ClosestReachable ==
    last.op = "closest" =>
        /\ ~last.threw
        /\ FoundEnds = {NodeRef(y) : y \in Reachable(Nodes, Edges, last.n, last.k)}
        /\ Len(found) = Cardinality(Reachable(Nodes, Edges, last.n, last.k))
        /\ \E i \in 1..Len(found) : found[i] = <<NodeRef(last.n)>>

\* A hybrid search in one direction that returns the source and one more
\* node, and leaves out a node that only an edge against the direction
\* connects.
C3_Witness ==
    /\ last.op = "closest" /\ last.alg = "hybrid" /\ last.k # 0
    /\ Len(found) = 2
    /\ Cardinality(Reachable(Nodes, Edges, last.n, 0)) = 3

\* C4: trace(from, to, direction) does not throw; when to is reachable from
\* from over edges permitted by the direction (to = from included) the path
\* starts at from and ends at to, and otherwise it is the empty path.
C4_Trace ==
    last.op = "trace" =>
        /\ ~last.threw
        /\ Len(found) = 1
        /\ IF last.b \in Reachable(Nodes, Edges, last.a, last.k)
           THEN /\ found[1] # <<>>
                /\ PathStart(found[1]) = NodeRef(last.a)
                /\ PathEnd(found[1]) = NodeRef(last.b)
           ELSE found[1] = <<>> /\ PathLength(found[1]) = 0

\* A trace against the direction of the only edges between two nodes: the
\* target is reachable in direction 0 and not in the direction asked for.
C4_Witness ==
    /\ last.op = "trace" /\ last.k # 0 /\ last.a # last.b
    /\ found = << <<>> >>
    /\ last.b \in Reachable(Nodes, Edges, last.a, 0)

\* ------------------------------------------------------- ranking a graph
\* Graph 1 has created every node and every edge and links its edges one
\* after the other; Graph 2 stays empty.  Each Graph has a PageRank object
\* with the default options.  No edge is linked once scores are stored, and
\* a query ends the run.  result is what the last PageRank call returned.
MaxLimit == 2
MaxHops == 2

InitRanking ==
    /\ IsWorld(CreateEdges(CreateNodes(NewWorld(Nodes, Edges), 1, NumNodes), 1, NumEdges))
    /\ json = NoJson
    /\ found = <<>>
    /\ last = NoCall
    /\ pagerank = [g \in Graphs |-> NewPageRank(DefaultIterations)]
    /\ result = NoResult
    /\ search = NoSearch

Queried == last.op \in {"getScore", "getTopNodes", "getRelevantNodes", "closest"}

RankCall(op, g, n) ==
    [Call(op, Null, n, Null, Null, FALSE, 0, FALSE, FALSE) EXCEPT !.g = g]

\* edge.link(a, b, d) for the next edge of Graph 1
RankAddEdge(e, a, b, d) ==
    /\ ~Queried
    /\ DOMAIN pagerank[1].scores = {}
    /\ ~IsLinked(Heap, e)
    /\ \A f \in 1..(e - 1) : IsLinked(Heap, f)
    /\ SetHeap(EdgeLink(Heap, e, a, b, d))
    /\ last' = Call("link", e, Null, a, b, d, 0, FALSE, FALSE)
    /\ result' = NoResult
    /\ UNCHANGED <<unitVars, graphVars, found, pagerank, search>>

\* compute() has returned r.ret and left the object r.pr.
ComputeReturned(g, r) ==
    /\ pagerank' = [pagerank EXCEPT ![g] = r.pr]
    /\ result' = [none |-> FALSE, v |-> r.ret]
    /\ last' = RankCall("compute", g, Null)
    /\ UNCHANGED <<heapVars, unitVars, graphVars, found, search>>

\* pagerank.compute() on the PageRank object of Graph g
Compute(g) ==
    /\ ~Queried
    /\ ComputeReturned(g, PageRankCompute(World, pagerank[g], g))

\* pagerank.getScore(n)
GetScoreOf(g, n) ==
    /\ ~Queried
    /\ result' = [none |-> FALSE, v |-> GetScore(World, pagerank[g], n)]
    /\ last' = RankCall("getScore", g, n)
    /\ UNCHANGED <<heapVars, unitVars, graphVars, found, pagerank, search>>

\* getTopNodes(n) has returned r.ret and left the object r.pr and the
\* Graph's nodes array sorted.
TopReturned(g, n, r) ==
    /\ pagerank' = [pagerank EXCEPT ![g] = r.pr]
    /\ gNodes' = r.world.gNodes
    /\ result' = [none |-> FALSE, v |-> r.ret]
    /\ last' = [RankCall("getTopNodes", g, Null) EXCEPT !.k = n]
    /\ UNCHANGED <<heapVars, unitVars, uniqval, gEdges, lookup, json, found, search>>

\* pagerank.getTopNodes(n)
GetTopNodes(g, n) ==
    /\ ~Queried
    /\ TopReturned(g, n, PageRankGetTopNodes(World, pagerank[g], g, n))

\* getRelevantNodes(n, options) has returned r.ret and left the object r.pr.
RelevantReturned(n, o, r) ==
    /\ pagerank' = [pagerank EXCEPT ![1] = r.pr]
    /\ result' = [none |-> FALSE, v |-> r.ret]
    /\ last' = [op |-> "getRelevantNodes", e |-> Null, n |-> n, a |-> Null,
                b |-> Null, d |-> FALSE, k |-> o.direction, wasLinked |-> FALSE,
                threw |-> FALSE, alg |-> "", g |-> 1, options |-> o]
    /\ UNCHANGED <<heapVars, unitVars, graphVars, found, search>>

\* getRelevantNodes(n, options) for options o with their defaults filled in
RelevantCall(n, o) ==
    RelevantReturned(n, o, PageRankGetRelevantNodes(World, pagerank[1], 1, n, o))

\* pagerank.getRelevantNodes(n, {compare, limit, maxDepth, minDepth,
\* minScore, direction}) on the PageRank object of Graph 1
GetRelevantNodes(n, compare, limit, maxDepth, minDepth, minScore, direction) ==
    /\ ~Queried
    /\ RelevantCall(n, RelevantOptions(Nodes, compare, limit, maxDepth, minDepth,
                                       minScore, direction))

\* graph.closest(n, {algorithm: "pagerank", direction, count, maxDepth,
\* minDepth}) on Graph 1
ClosestPageRank(n, direction, count, maxDepth, minDepth) ==
    /\ ~Queried
    /\ found' = GraphClosestPageRank(World, 1, n, count, maxDepth, minDepth)
    /\ last' = [op |-> "closest", e |-> Null, n |-> n, a |-> Null, b |-> Null,
                d |-> FALSE, k |-> direction, wasLinked |-> FALSE, threw |-> FALSE,
                alg |-> "pagerank", g |-> 1, count |-> count, maxDepth |-> maxDepth,
                minDepth |-> minDepth]
    /\ UNCHANGED <<heapVars, unitVars, graphVars, rankVars, search>>

\* The values of an option: left out, or one of vs.
Optional(vs) == {{}} \cup {{v} : v \in vs}

MinScores == {RZero, Rat(1, 4)}

NextRanking ==
    \/ \E e \in Edges, a \in Nodes, b \in Nodes, d \in BOOLEAN :
          /\ e = 1 => (a = 1 /\ b <= 2)
          /\ RankAddEdge(e, a, b, d)
    \/ \E g \in Graphs : Compute(g)
    \/ \E g \in Graphs, n \in Nodes : GetScoreOf(g, n)
    \/ \E g \in Graphs, n \in 0..MaxLimit : GetTopNodes(g, n)
    \/ /\ ~Queried
       /\ \E n \in Nodes, compare \in Optional(PassSets \ {Nodes}),
             limit \in Optional({1}), maxDepth \in Optional({1}),
             minDepth \in Optional({MaxHops}), minScore \in Optional(MinScores \ {RZero}),
             direction \in Optional({-1, 1}) :
             GetRelevantNodes(n, compare, limit, maxDepth, minDepth, minScore, direction)
    \/ /\ ~Queried
       /\ \E n \in Nodes, direction \in Directions, count \in Optional({1}),
             maxDepth \in Optional({1}), minDepth \in Optional({0}) :
             ClosestPageRank(n, direction, count, maxDepth, minDepth)

SpecRanking == InitRanking /\ [][NextRanking]_vars

\* The same calls of getRelevantNodes on one Graph with HopEdgeCount edges,
\* enough for a walk of two edges beside a duplex edge.
HopEdgeCount == 3
HopEdges == 1..HopEdgeCount

InitHops ==
    /\ IsWorld(CreateEdges(CreateNodes(NewWorld(Nodes, HopEdges), 1, NumNodes), 1, HopEdgeCount))
    /\ json = NoJson
    /\ found = <<>>
    /\ last = NoCall
    /\ InitRank
    /\ search = NoSearch

NextHops ==
    \/ \E e \in HopEdges, a \in Nodes, b \in Nodes, d \in BOOLEAN :
          /\ e = 1 => (a = 1 /\ b <= 2)
          /\ RankAddEdge(e, a, b, d)
    \/ /\ \A e \in HopEdges : IsLinked(Heap, e)
       /\ \E n \in Nodes, maxDepth \in Optional({1}), direction \in Optional({-1, 1}) :
             GetRelevantNodes(n, {}, {}, maxDepth, {}, {}, direction)

SpecHops == InitHops /\ [][NextHops]_vars

\* compute() between changes of the Graph: Graph 1, with a PageRank object
\* made with maxIterations 0 or left at DefaultIterations, creates nodes and
\* one edge, links it and loads the JSON of Graph 2, which replaces its nodes;
\* Graph 2 only creates nodes, while Graph 1 is empty.  RecomputeNodes node
\* objects are enough for two nodes computed and one loaded over them.
RecomputeNodes == 4
RNodes == 1..RecomputeNodes

InitRecompute ==
    /\ IsWorld(NewWorld(RNodes, Edges))
    /\ json = NoJson
    /\ found = <<>>
    /\ last = NoCall
    /\ \E it \in {0, DefaultIterations} :
          pagerank = [g \in Graphs |-> NewPageRank(it)]
    /\ result = NoResult
    /\ search = NoSearch

\* g.createNode("unit")
RecomputeCreateNode(g) ==
    /\ numNodes < RecomputeNodes
    /\ SetWorld(GraphCreateNode(World, g, PlainData))
    /\ last' = [Call("createNode", Null, numNodes + 1, Null, Null, FALSE, 0, FALSE, FALSE)
                  EXCEPT !.g = g]
    /\ UNCHANGED <<json, found, rankVars, search>>

\* graph1.fromJSON(graph2.toJSON())
RecomputeLoad ==
    LET r == GraphFromJSON(World, 1, GraphToJSON(World, 2)) IN
    /\ last.op # "fromJSON"
    /\ numNodes + Len(gNodes[2]) <= RecomputeNodes
    /\ SetWorld(r.world)
    /\ last' = [Call("fromJSON", Null, Null, Null, Null, FALSE, 0, FALSE, r.threw)
                  EXCEPT !.g = 1]
    /\ UNCHANGED <<json, found, rankVars, search>>

NextRecompute ==
    \/ \E g \in Graphs :
          /\ g = 2 => gNodes[1] = <<>>
          /\ RecomputeCreateNode(g)
    \/ numEdges = 0 /\ CreateEdge(1)
    \/ \E i \in Edges, j \in RNodes, k \in RNodes, d \in BOOLEAN : LinkIn(1, i, j, k, d)
    \/ RecomputeLoad
    \/ last.op # "compute" /\ Compute(1)

SpecRecompute == InitRecompute /\ [][NextRecompute]_vars

\* ------------------------------------------- claims: search with options
\* The end nodes of the paths in a list.
EndsOf(paths) == {PathEnd(paths[i]) : i \in {j \in 1..Len(paths) : paths[j] # <<>>}}

\* What the call made last returns with another algorithm or count.
SameCall(alg, count) ==
    GraphClosest(Heap, nodeId, last.n, alg, last.pass, count, last.k,
                 last.minDepth, last.maxDepth).found

\* The entries of a node's list that a search in direction dir follows.
Followed(n, dir) ==
    LET es == IF dir = 0 THEN edges[n]
              ELSE IF dir > 0 THEN outputEdges[n] ELSE inputEdges[n]
    IN {es[i] : i \in 1..Len(es)}

\* p is a walk from node src over edges permitted by dir.
IsWalk(p, src, dir) ==
    /\ Len(p) % 2 = 1
    /\ p[1] = NodeRef(src)
    /\ \A i \in 1..Len(p) : p[i].kind = (IF i % 2 = 1 THEN "node" ELSE "edge")
    /\ \A i \in {j \in 1..Len(p) : j % 2 = 0} :
          /\ {inputNode[p[i].obj], outputNode[p[i].obj]} = {p[i - 1].obj, p[i + 1].obj}
          /\ p[i].obj \in Followed(p[i - 1].obj, dir)

\* C12: every path returned by closest, default or hybrid, ends at a node
\* that compare accepts, has a distance of at least minDepth and, when
\* maxDepth > 0, of at most maxDepth.
C12_Filters ==
    last.op = "closest" =>
        \A i \in 1..Len(found) :
            /\ PathEnd(found[i]).obj \in last.pass
            /\ PathDistance(Heap, found[i]) >= last.minDepth
            /\ last.maxDepth > 0 => PathDistance(Heap, found[i]) <= last.maxDepth

\* A hybrid search with compare and both depths set to 1 that returns one
\* of three reachable nodes.
C12_Witness ==
    /\ last.op = "closest" /\ last.alg = "hybrid"
    /\ last.pass # Nodes /\ last.minDepth = 1 /\ last.maxDepth = 1 /\ last.count = 0
    /\ Len(found) = 1
    /\ Cardinality(Reachable(Nodes, Edges, last.n, last.k)) = 3

\* C13: closest with count = k > 0, default or hybrid, returns the first
\* min(k, m) of the m paths that the same call returns without count, in
\* the same order.
C13_Count ==
    (last.op = "closest" /\ last.count > 0) =>
        LET full == SameCall(last.alg, 0)
        IN found = SubSeq(full, 1, Min(last.count, Len(full)))

\* A search with count 1 that would return three paths without it.
C13_Witness ==
    /\ last.op = "closest" /\ last.count = 1
    /\ Len(found) = 1
    /\ Len(SameCall(last.alg, 0)) = 3

\* C14: every non-empty path returned by closest or trace starts at the
\* source, alternates node, edge, node, and each of its edges joins the
\* nodes before and after it and is in the list of the node before it that
\* the direction selects.
C14_Walks ==
    last.op \in {"closest", "trace"} =>
        \A i \in 1..Len(found) :
            found[i] # <<>> => IsWalk(found[i], last.n, last.k)

\* A hybrid search against the direction of two edges in a row that returns
\* a path of two edges.
C14_Witness ==
    /\ last.op = "closest" /\ last.alg = "hybrid" /\ last.k < 0
    /\ \E i \in 1..Len(found) :
          /\ PathLength(found[i]) = 2
          /\ ~duplex[found[i][2].obj] /\ ~duplex[found[i][4].obj]

\* C15: for the same source, compare, direction, minDepth and maxDepth, and
\* no count, the default and the hybrid algorithm return paths that end at
\* the same set of nodes.
C15_SameEnds ==
    (last.op = "closest" /\ last.count = 0) =>
        /\ EndsOf(SameCall("dijkstra", 0)) = EndsOf(SameCall("hybrid", 0))
        /\ EndsOf(found) = EndsOf(SameCall("hybrid", 0))

\* -------------------------------------------------------- claims: ranking
ROne == [n |-> 1, d |-> 1]

\* The stored scores of the nodes of Graph g, in the order of graph.nodes.
StoredScores(g) ==
    [i \in 1..Len(gNodes[g]) |-> GetScore(World, pagerank[g], gNodes[g][i])]

\* C16: after compute() on a graph with N > 0 nodes the stored score of
\* every node is non-negative and the scores of all nodes sum to 1.
C16_Normalized ==
    (last.op = "compute" /\ Len(gNodes[last.g]) > 0) =>
        /\ \A i \in 1..Len(gNodes[last.g]) : StoredScores(last.g)[i].n >= 0
        /\ RSum(StoredScores(last.g), 1) = ROne
        /\ result.v = pagerank[last.g].scores

\* compute() on a graph with a duplex edge, a self-loop and a node without
\* outgoing edges, where the scores are not all equal.
C16_Witness ==
    /\ last.op = "compute" /\ last.g = 1
    /\ \E e \in Edges : IsLinked(Heap, e) /\ duplex[e] /\ inputNode[e] # outputNode[e]
    /\ \E e \in Edges : IsLinked(Heap, e) /\ inputNode[e] = outputNode[e]
    /\ \E n \in Nodes : OutgoingCount(World, n) = 0
    /\ \E i, j \in 1..Len(gNodes[1]) : StoredScores(1)[i] # StoredScores(1)[j]

\* The score stored for a node of Graph 1.
Score1(n) == ScoreOf(pagerank[1].scores, nodeId[n])

\* The hop distances getNodesWithDistances records for the call made last.
Recorded ==
    NodesWithDistances(World, last.n, last.options.maxDepth, last.options.direction)

\* C17: every node returned by getRelevantNodes(source, options) differs
\* from source, has a recorded hop distance between minDepth and maxDepth,
\* satisfies compare and, when minScore > 0, has a score of at least
\* minScore; the result is sorted by non-increasing score and has at most
\* limit elements.
C17_Relevant ==
    last.op = "getRelevantNodes" =>
        LET o == last.options
            ret == result.v
        IN /\ \A i \in 1..Len(ret) :
                 /\ ret[i] # last.n
                 /\ \E j \in 1..Len(Recorded) :
                       /\ Recorded[j].node = ret[i]
                       /\ o.minDepth <= Recorded[j].distance
                       /\ Recorded[j].distance <= o.maxDepth
                 /\ ret[i] \in o.compare
                 /\ RLess(RZero, o.minScore) => ~RLess(Score1(ret[i]), o.minScore)
           /\ \A i \in 1..Len(ret) : \A j \in (i + 1)..Len(ret) :
                 ~RLess(Score1(ret[i]), Score1(ret[j]))
           /\ Len(ret) <= o.limit

\* getRelevantNodes with compare, minScore and direction given returns two
\* nodes of different scores and different hop distances, the node reached
\* first behind the other.
C17_Witness ==
    /\ last.op = "getRelevantNodes"
    /\ last.options.compare # Nodes
    /\ RLess(RZero, last.options.minScore)
    /\ last.options.direction # 0
    /\ Len(result.v) = 2
    /\ RLess(Score1(result.v[2]), Score1(result.v[1]))
    /\ \E j \in 1..Len(Recorded) : Recorded[j].node = result.v[1] /\ Recorded[j].distance = 2

\* The candidates of the call made last: the nodes inside the depth range
\* that are not the source and pass compare.
Candidates ==
    {Recorded[j].node : j \in {i \in 1..Len(Recorded) :
        /\ Recorded[i].node # last.n
        /\ last.options.minDepth <= Recorded[i].distance
        /\ Recorded[i].distance <= last.options.maxDepth
        /\ Recorded[i].node \in last.options.compare}}

\* C18: getRelevantNodes with minScore = 0 and limit >= 1, when there are
\* more candidates than limit, returns exactly limit nodes, and no candidate
\* left out has a strictly higher score than a returned node.
C18_TopLimit ==
    (/\ last.op = "getRelevantNodes"
     /\ last.options.minScore = RZero
     /\ last.options.limit >= 1
     /\ Cardinality(Candidates) > last.options.limit) =>
        LET ret == result.v
            returned == {ret[i] : i \in 1..Len(ret)}
        IN /\ Len(ret) = last.options.limit
           /\ Cardinality(returned) = last.options.limit
           /\ returned \subseteq Candidates
           /\ \A c \in Candidates \ returned : \A r \in returned :
                 ~RLess(Score1(r), Score1(c))

\* Two candidates of different scores and limit 1: the one returned was
\* reached after the one left out.
C18_Witness ==
    /\ last.op = "getRelevantNodes"
    /\ last.options.minScore = RZero
    /\ last.options.limit = 1
    /\ Cardinality(Candidates) = 2
    /\ Len(result.v) = 1
    /\ \E c \in Candidates : RLess(Score1(c), Score1(result.v[1]))
    /\ Recorded[2].node # result.v[1]

\* The nodes within k hops of src over the steps direction dir permits.
RECURSIVE WithinHops(_, _, _)
WithinHops(src, dir, k) ==
    IF k = 0 THEN {src}
    ELSE LET prev == WithinHops(src, dir, k - 1)
         IN prev \cup {y \in Nodes : \E x \in prev, e \in Edges : MayStep(e, x, y, dir)}

\* C19: closest(node, {algorithm: "pagerank", direction: d}) returns only
\* nodes within maxDepth hops of node over outgoing edges when d > 0, over
\* incoming edges when d < 0.
C19_Direction ==
    (last.op = "closest" /\ last.alg = "pagerank" /\ last.k # 0) =>
        \A i \in 1..Len(found) :
            PathEnd(found[i]).obj \in WithinHops(last.n, last.k, OrElse(last.maxDepth, 2))

\* C20: on a graph with no nodes compute() returns an empty mapping and
\* getTopNodes() an empty sequence; getScore(n) is 0 for a node for which no
\* score is stored.
C20_Empty ==
    /\ (last.op = "compute" /\ Len(gNodes[last.g]) = 0) =>
          ~result.none /\ result.v = NoScores /\ pagerank[last.g].scores = NoScores
    /\ (last.op = "getTopNodes" /\ Len(gNodes[last.g]) = 0) =>
          ~result.none /\ result.v = <<>>
    /\ (last.op = "getScore" /\ nodeId[last.n] \notin DOMAIN pagerank[last.g].scores) =>
          ~result.none /\ result.v = RZero

\* getScore on the PageRank object of the empty Graph 2 for a node of
\* Graph 1, whose own PageRank object has scores stored.
C20_Witness ==
    /\ last.op = "getScore" /\ last.g = 2
    /\ Len(gNodes[2]) = 0
    /\ DOMAIN pagerank[1].scores # {}
    /\ result = [none |-> FALSE, v |-> RZero]

\* --------------------------------------------- claims: search, continued
\* (option || 0) | 0 for an option that is left out or is an integer.
IntOption(opt) == OrElse(opt, 0)

\* More than the distance of any path in a graph of SpecFilter.
Unbounded == NumEdges * FilterMaxDistance + 1

\* The call made last with another maxDepth.
SameCallMaxDepth(maxDepth) ==
    GraphClosest(Heap, nodeId, last.n, last.alg, last.pass, last.count, last.k,
                 last.minDepth, maxDepth).found

\* C21: closest with maxDepth 0, default or hybrid, returns the list of
\* paths that the same call returns with maxDepth left out, which is the
\* list of a search without an upper bound.
C21_ZeroIsUnbounded ==
    (last.op = "closest" /\ last.maxDepth = 0) =>
        /\ found = SameCallMaxDepth(IntOption({}))
        /\ found = SameCallMaxDepth(Unbounded)

\* A default search with maxDepth 0 that returns a path of distance 4.
C21_Witness ==
    /\ last.op = "closest" /\ last.alg = "dijkstra" /\ last.maxDepth = 0
    /\ \E i \in 1..Len(found) : PathDistance(Heap, found[i]) = 2 * FilterMaxDistance

\* C22: while a default search runs, the list of pending distances is
\* strictly increasing, so that the distance the outer loop takes next, the
\* one at the front, is the smallest one pending.
C22_PendingIncreasing ==
    (Running /\ search.alg = "dijkstra") =>
        \A i, j \in 1..Len(search.st.depthList) :
            i < j => search.st.depthList[i] < search.st.depthList[j]

\* Two entries of the frontier of equal priority.
Tie(x, y) ==
    ~PriorityGreater(x.priority, y.priority) /\ ~PriorityGreater(y.priority, x.priority)

\* The frontier of the hybrid search holds no entry before one of greater
\* priority.
FrontierOrdered ==
    (Running /\ search.alg = "hybrid") =>
        \A i, j \in 1..Len(search.st.pq) :
            i < j => ~PriorityGreater(search.st.pq[j].priority, search.st.pq[i].priority)

\* In the list returned by a hybrid search, of two nodes reached over an edge
\* from the same node at the same distance the one of higher degree is first.
HigherDegreeFirst ==
    (Searched /\ last.alg = "hybrid") =>
        \A i, j \in 1..Len(found) :
            LET p == found[i]
                q == found[j]
            IN (/\ Len(p) >= 3 /\ Len(q) >= 3
                /\ p[Len(p) - 2] = q[Len(q) - 2]
                /\ PathDistance(Heap, p) = PathDistance(Heap, q)
                /\ Len(edges[p[Len(p)].obj]) > Len(edges[q[Len(q)].obj]))
               => i < j

\* The 1-based position of the entry x in the frontier pq.
Position(pq, x) == CHOOSE i \in 1..Len(pq) : pq[i] = x

\* The position in the list es of the first edge that leads from node to x.
FirstEdgeTo(es, node, x) ==
    CHOOSE i \in 1..Len(es) :
        /\ OppositeNode(Heap, es[i], node) = x
        /\ \A k \in 1..(i - 1) : OppositeNode(Heap, es[k], node) # x

\* One pass of the loop of the hybrid search takes an entry of the greatest
\* priority, and puts of two entries of equal priority the one first that
\* was entered first.
PopsGreatestFifo ==
    (/\ Running /\ search' # NoSearch
     /\ search.alg = "hybrid" /\ search'.read # search.read) =>
        LET pq == search.st.pq
            popped == Head(pq)
            old == Tail(pq)
            new == search'.st.pq
            es == EdgesToward(Heap, popped.node, search.o.direction)
            isOld(x) == \E k \in 1..Len(old) : old[k] = x
        IN /\ \A i \in 1..Len(pq) : ~PriorityGreater(pq[i].priority, popped.priority)
           /\ \A i, j \in 1..Len(new) :
                (i < j /\ Tie(new[i], new[j])) =>
                    IF isOld(new[j])
                    THEN isOld(new[i]) /\ Position(old, new[i]) < Position(old, new[j])
                    ELSE \/ isOld(new[i])
                         \/ FirstEdgeTo(es, popped.node, new[i].node)
                              < FirstEdgeTo(es, popped.node, new[j].node)

\* C23: the frontier of a hybrid search is in non-increasing order of
\* priority (0.7/(distance + 1) + 0.3 degree/100, the degree counted by the
\* direction); every pass takes an entry of the greatest priority, entries of
\* equal priority leave in the order they entered, and of two nodes found
\* from the same node at the same distance the one of higher degree is
\* returned first.
C23_Frontier ==
    /\ [](FrontierOrdered /\ HigherDegreeFirst)
    /\ [][PopsGreatestFifo]_vars

\* A frontier after the first pass that holds two entries of equal priority
\* and two of the same distance and different degree.
C23_Witness ==
    /\ Running /\ search.alg = "hybrid" /\ search.read # <<>>
    /\ \E i, j \in 1..Len(search.st.pq) :
         i < j /\ Tie(search.st.pq[i], search.st.pq[j])
    /\ \E i, j \in 1..Len(search.st.pq) :
         /\ search.st.pq[i].distance = search.st.pq[j].distance
         /\ search.st.pq[i].priority.c > search.st.pq[j].priority.c

\* C24: closest, with either algorithm, and trace end without a TypeError on
\* every graph built by one Graph, whatever its cycles, loops, parallel,
\* duplex and zero-distance edges and unconnected parts, and take no node
\* twice from their queues.
C24_Terminates ==
    /\ [](Running => /\ ~search.st.threw
                     /\ \A i, j \in 1..Len(search.read) :
                            search.read[i] = search.read[j] => i = j)
    /\ [](Searched => ~last.threw)
    /\ (Running ~> ~Running)

\* A search that is over after it went round a cycle over a duplex edge of
\* distance 0 and a loop.
C24_Witness ==
    /\ Searched /\ ~last.threw /\ last.op = "closest" /\ last.n = 1
    /\ Len(found) = 2
    /\ \E e, f \in Edges :
         /\ e # f
         /\ inputNode[e] = outputNode[e]
         /\ inputNode[f] # outputNode[f] /\ duplex[f] /\ distance[f] = 0

\* ------------------------------------------- claims: PageRank, continued
\* The nodes with a walk of at most k edges from src over the steps that
\* direction dir permits, a duplex edge permitting both.
RECURSIVE HopsWithin(_, _, _)
HopsWithin(src, dir, k) ==
    IF k = 0 THEN {src}
    ELSE LET prev == HopsWithin(src, dir, k - 1)
         IN prev \cup {y \in 1..numNodes :
                         \E x \in prev, e \in 1..numEdges : MayStep(e, x, y, dir)}

\* C25: the hop distance getRelevantNodes records for a node is the least
\* number of edges of a walk from the source over edges the direction
\* permits, a duplex edge being permitted from either end in every
\* direction; no node without such a walk of at most maxDepth edges is
\* returned.
C25_MinimumHops ==
    last.op = "getRelevantNodes" =>
        LET dir == last.options.direction IN
        /\ \A j \in 1..Len(Recorded) :
              LET k == Recorded[j].distance
                  x == Recorded[j].node
              IN /\ x \in HopsWithin(last.n, dir, k)
                 /\ k > 0 => x \notin HopsWithin(last.n, dir, k - 1)
        /\ \A i \in 1..Len(result.v) :
              result.v[i] \in HopsWithin(last.n, dir, last.options.maxDepth)

\* ------------------------------------------------ claims: JSON, continued
\* C26: fromJSON of a JSON with the record of an unlinked edge, whose
\* endpoint ids are empty and resolve to no node, completes without a
\* TypeError; the edge it makes has null endpoints, and no list of a node
\* holds it.
C26_Unresolved ==
    Copied =>
        \A i \in 1..Len(gEdges[1]) :
            ~IsLinked(Heap, gEdges[1][i]) =>
                /\ ~last.threw
                /\ i <= Len(gEdges[2])
                /\ LET e == gEdges[2][i]
                   IN /\ inputNode[e] = Null /\ outputNode[e] = Null
                      /\ \A n \in 1..numNodes :
                            /\ Count(edges[n], e) = 0
                            /\ Count(inputEdges[n], e) = 0
                            /\ Count(outputEdges[n], e) = 0

\* The ids of the nodes of Graph g.
NodeIds(g) == {nodeId[gNodes[g][i]] : i \in 1..Len(gNodes[g])}

\* C27: the mapping compute() returns depends on the Graph as it is and on
\* the options only: it is the mapping that a PageRank object made now with
\* the same options returns, and it has an entry for exactly the nodes the
\* Graph has now.
C27_Recompute ==
    last.op = "compute" =>
        /\ result.v = PageRankCompute(World, NewPageRank(pagerank[last.g].maxIterations),
                                      last.g).ret
        /\ DOMAIN result.v = NodeIds(last.g)

\* The calls that ask and are to change nothing.
Queries == {"closest", "trace", "compute", "getScore", "getTopNodes", "getRelevantNodes"}

\* C28: a query (closest, trace, compute, getScore, getTopNodes,
\* getRelevantNodes) leaves the lists of the Graphs, the lists of every node
\* and the fields of every edge as they were, in content and in order, and
\* toJSON() of each Graph returns after it what it returned before.
C28_ReadOnly ==
    [][last'.op \in Queries =>
          /\ UNCHANGED <<heapVars, gNodes, gEdges>>
          /\ \A g \in Graphs : GraphToJSON(World, g)' = GraphToJSON(World, g)]_vars

\* The sum, over the edges es from index i on, of the score of the node at
\* the other end of the edge from node over that node's outgoing count.
RECURSIVE OtherEndShares(_, _, _, _)
OtherEndShares(scores, node, es, i) ==
    IF i > Len(es) THEN RZero
    ELSE LET m == OppositeNode(Heap, es[i], node)
             share == IF m = Null \/ Len(outputEdges[m]) = 0 THEN RZero
                      ELSE RDiv(ScoreOf(scores, nodeId[m]),
                                [n |-> Len(outputEdges[m]), d |-> 1])
         IN RAdd(share, OtherEndShares(scores, node, es, i + 1))

\* C29: in an iteration that starts from the scores compute() has stored,
\* the link term of every node N is the sum over the edges of N.inputEdges
\* of score(M)/outDegree(M) for the node M at the other end of the edge, so
\* that over a duplex edge between two nodes each receives the other's
\* share and not its own.
C29_OtherEnd ==
    (last.op = "compute" /\ DOMAIN pagerank[last.g].scores # {}) =>
        \A i \in 1..Len(gNodes[last.g]) :
            LET node == gNodes[last.g][i]
            IN LinkTerm(World, pagerank[last.g].scores, node)
                 = OtherEndShares(pagerank[last.g].scores, node, inputEdges[node], 1)

\* ------------------------------------------------ claims: load and save
\* C30: load(filename) on a Graph made without readFile and save(filename)
\* on a Graph made without writeFile leave the Graph's nodes, edges and
\* lookup as they were.
C30_FilesUntouched ==
    [][last'.op \in {"load", "save"} => UNCHANGED <<gNodes, gEdges, lookup>>]_vars
====
